---- MODULE Spec2Model ----
(***************************************************************************)
(* Model of the DrawTabPenCompat data pipeline: the XML loader with family *)
(* expansion (fetchAndParseXML), mergeCompatData, the view projections,    *)
(* the search filter and the device-id ordering of table-renderer.js.      *)
(*                                                                         *)
(* JavaScript strings are modelled as sequences of one-character strings,  *)
(* so that comparison, case folding, splitting and pattern matching are    *)
(* computed character by character as the engine computes them.            *)
(***************************************************************************)
EXTENDS Integers, Sequences, FiniteSets, TLC

VARIABLES
    xmlDoc,            \* the XML document behind the url being loaded / rendered
    dataList,          \* the datasets fetchAndParseXML has returned so far
    heap,              \* object store: definition entries and row objects, by address
    mergedData,        \* what the last mergeCompatData call returned (NoData before)
    console,           \* the console.warn calls made so far
    thrown,            \* the Error the last fetchAndParseXML call threw (NoError if none)
    ui,                \* the state of the controls renderCompatTable reads
    displayRows,       \* the projection computed by the last renderCompatTable call
    tableBody,         \* the <tr> rows of the table body
    statsBar,          \* the counts shown in the stats bar
    headerRow,         \* the column titles of the table head
    currentTableData,  \* window.currentTableData
    clipboard,         \* the text on the clipboard (Undefined before the first copy)
    callArgs,          \* arguments of the last direct call of a function
    callResult         \* what that call returned (NoResult before the call)

loaderVars == <<xmlDoc, dataList, heap, mergedData, console, thrown>>
renderVars ==
    <<ui, displayRows, tableBody, statsBar, headerRow, currentTableData, clipboard>>
callVars == <<callArgs, callResult>>

vars == <<loaderVars, renderVars, callVars>>

\* Absent values. Records are compared with records and strings with strings,
\* so each absent value has the shape of the values it stands in for.
NoData == [none |-> TRUE]
NoResult == [none |-> TRUE, result |-> TRUE]
NoError == "no-error"
NoNode == <<"no-node">>
NoAttr == <<"null">>
Undefined == <<"undefined">>

\* The parts of the state a specification does not exercise stay as they are
\* before the first load, the first render and the first direct call.
LoaderIdle ==
    /\ xmlDoc = NoData /\ dataList = <<>> /\ heap = <<>> /\ mergedData = NoData
    /\ console = <<>> /\ thrown = NoError

\* The controls as renderCompatTable reads them when nothing has been set:
\* names shown, one line, no family groups, the grouped view, no query.
InitialControls ==
    [showIdsOnly |-> FALSE, onePerLine |-> FALSE, organizeByFamily |-> FALSE,
     viewMode |-> "grouped", search |-> <<>>]

RenderIdle ==
    /\ ui = InitialControls /\ displayRows = <<>> /\ tableBody = <<>>
    /\ statsBar = NoData /\ headerRow = <<>>
    /\ currentTableData = NoData
    /\ clipboard = Undefined

CallIdle == callArgs = NoData /\ callResult = NoResult

----------------------------------------------------------------------------
(* Strings.                                                                *)

\* UTF-16 code units of the characters the model uses.
CharCode ==
    ("\n" :> 10) @@ (" " :> 32) @@ ("\"" :> 34) @@ ("(" :> 40) @@ (")" :> 41) @@
    ("*" :> 42) @@ ("+" :> 43) @@ ("." :> 46) @@
    ("0" :> 48) @@ ("1" :> 49) @@ ("2" :> 50) @@ ("3" :> 51) @@ ("?" :> 63) @@
    ("A" :> 65) @@ ("B" :> 66) @@ ("C" :> 67) @@ ("F" :> 70) @@ ("G" :> 71) @@
    ("P" :> 80) @@ ("T" :> 84) @@ ("X" :> 88) @@ ("Z" :> 90) @@ ("\\" :> 92) @@
    ("a" :> 97) @@ ("b" :> 98) @@ ("c" :> 99) @@ ("d" :> 100) @@ ("e" :> 101) @@
    ("f" :> 102) @@ ("o" :> 111) @@ ("r" :> 114) @@ ("t" :> 116) @@ ("x" :> 120)

RECURSIVE StrLess(_, _)
\* The JavaScript operator < on two strings: code unit by code unit, a proper
\* prefix being smaller.
StrLess(s, t) ==
    IF t = <<>> THEN FALSE
    ELSE IF s = <<>> THEN TRUE
    ELSE IF CharCode[Head(s)] < CharCode[Head(t)] THEN TRUE
    ELSE IF CharCode[Head(s)] > CharCode[Head(t)] THEN FALSE
    ELSE StrLess(Tail(s), Tail(t))

Range(s) == {s[i] : i \in 1..Len(s)}

RECURSIVE Concat(_)
\* The concatenation of a sequence of strings (or of arrays).
Concat(ss) == IF ss = <<>> THEN <<>> ELSE Head(ss) \o Concat(Tail(ss))

\* All sequences over S of length at most n.
SeqsUpTo(S, n) == UNION {[1..k -> S] : k \in 0..n}

----------------------------------------------------------------------------
(* compareDeviceIds and sortItems.                                         *)

NoDef == [familyId |-> <<>>, name |-> <<>>]

\* defsMap.get(id) || { familyId: '', name: '' }
DefOrDefault(defsMap, id) == IF id \in DOMAIN defsMap THEN defsMap[id] ELSE NoDef

\* A plausible slip: the tie on the family id is not broken by the id.
compareDeviceIdsNoTieBreak(a, b, defsMap) ==
    LET defA == DefOrDefault(defsMap, a)
        defB == DefOrDefault(defsMap, b)
    IN  IF StrLess(defA.familyId, defB.familyId) THEN -1
        ELSE IF StrLess(defB.familyId, defA.familyId) THEN 1
        ELSE 0

compareDeviceIds(a, b, defsMap) ==
    LET defA == DefOrDefault(defsMap, a)
        defB == DefOrDefault(defsMap, b)
    IN  IF StrLess(defA.familyId, defB.familyId) THEN -1
        ELSE IF StrLess(defB.familyId, defA.familyId) THEN 1
        ELSE IF StrLess(a, b) THEN -1
        ELSE IF StrLess(b, a) THEN 1
        ELSE 0

----------------------------------------------------------------------------
(* createGlobRegex and RegExp.prototype.test.                              *)

\* The characters of the class [.+^${}()|[\]\\] that the model's alphabet holds.
RegexSpecial == {".", "+", "(", ")", "\\"}

\* pattern.replace(/[.+^${}()|[\]\\]/g, '\\$&')
EscapeSpecial(pattern) ==
    Concat([i \in 1..Len(pattern) |->
        IF pattern[i] \in RegexSpecial THEN <<"\\", pattern[i]>> ELSE <<pattern[i]>>])

\* escaped.replace(/\*/g, '.*')
ReplaceStar(s) ==
    Concat([i \in 1..Len(s) |-> IF s[i] = "*" THEN <<".", "*">> ELSE <<s[i]>>])

\* (...).replace(/\?/g, '.')
ReplaceQuestion(s) ==
    Concat([i \in 1..Len(s) |-> IF s[i] = "?" THEN <<".">> ELSE <<s[i]>>])

\* A plausible slip: the 'i' flag is left out.
createGlobRegexCaseSensitive(pattern) ==
    [source |-> ReplaceQuestion(ReplaceStar(EscapeSpecial(pattern))),
     ignoreCase |-> FALSE]

\* new RegExp(globPattern, 'i'): the source text and the flag.
createGlobRegex(pattern) ==
    [source |-> ReplaceQuestion(ReplaceStar(EscapeSpecial(pattern))),
     ignoreCase |-> TRUE]

RECURSIVE ParseRegex(_)
\* The atoms of a regular-expression source made of escaped characters, '.',
\* '.*' and ordinary characters: the only sources createGlobRegex produces.
ParseRegex(src) ==
    IF src = <<>> THEN <<>>
    ELSE IF Head(src) = "\\" /\ Len(src) >= 2
        THEN <<[kind |-> "char", ch |-> src[2], star |-> FALSE]>>
                \o ParseRegex(SubSeq(src, 3, Len(src)))
    ELSE LET atom == IF Head(src) = "." THEN [kind |-> "any", ch |-> "."]
                     ELSE [kind |-> "char", ch |-> Head(src)]
         IN  IF Len(src) >= 2 /\ src[2] = "*"
             THEN <<[kind |-> atom.kind, ch |-> atom.ch, star |-> TRUE]>>
                     \o ParseRegex(SubSeq(src, 3, Len(src)))
             ELSE <<[kind |-> atom.kind, ch |-> atom.ch, star |-> FALSE]>>
                     \o ParseRegex(Tail(src))

\* Canonicalize of the i flag: a lower-case letter stands for its upper case.
Canonicalize(ch) ==
    IF CharCode[ch] >= 97 /\ CharCode[ch] <= 122 THEN CharCode[ch] - 32 ELSE CharCode[ch]

\* Whether one atom accepts one character; '.' accepts all but line terminators.
AtomAccepts(atom, ch, ignoreCase) ==
    IF atom.kind = "any" THEN ch # "\n"
    ELSE IF ignoreCase THEN Canonicalize(atom.ch) = Canonicalize(ch)
    ELSE atom.ch = ch

RECURSIVE MatchEnds(_, _, _, _)
\* The positions at which a match of the atoms that starts at position i of
\* text can end (i is the index of the next character to read).
MatchEnds(atoms, text, i, ignoreCase) ==
    IF atoms = <<>> THEN {i}
    ELSE LET atom == Head(atoms)
             \* the positions reachable from i by reading only accepted characters
             run == {j \in i..(Len(text) + 1) :
                        \A k \in i..(j - 1) : AtomAccepts(atom, text[k], ignoreCase)}
         IN  IF atom.star
             THEN UNION {MatchEnds(Tail(atoms), text, j, ignoreCase) : j \in run}
             ELSE IF i <= Len(text) /\ AtomAccepts(atom, text[i], ignoreCase)
                  THEN MatchEnds(Tail(atoms), text, i + 1, ignoreCase)
                  ELSE {}

\* regex.test(text): the source holds no ^ or $, so a match may start at any
\* position of text and end before its end.
RegExpTest(regex, text) ==
    LET atoms == ParseRegex(regex.source)
    IN  \E i \in 1..(Len(text) + 1) :
            MatchEnds(atoms, text, i, regex.ignoreCase) # {}

----------------------------------------------------------------------------
(* Text nodes and token lists.                                             *)

RECURSIVE DropWhile(_, _)
\* s without its longest prefix of characters of the set.
DropWhile(s, set) ==
    IF s # <<>> /\ Head(s) \in set THEN DropWhile(Tail(s), set) ELSE s

RECURSIVE TakeUntil(_, _)
\* The longest prefix of s that holds no character of the set.
TakeUntil(s, set) ==
    IF s = <<>> \/ Head(s) \in set THEN <<>>
    ELSE <<Head(s)>> \o TakeUntil(Tail(s), set)

RECURSIVE ReplaceNewlines(_)
\* text.replace(/[\n\r]+/g, ' ')
ReplaceNewlines(s) ==
    IF s = <<>> THEN <<>>
    ELSE IF Head(s) = "\n" THEN <<" ">> \o ReplaceNewlines(DropWhile(s, {"\n"}))
    ELSE <<Head(s)>> \o ReplaceNewlines(Tail(s))

Reverse(s) == [i \in 1..Len(s) |-> s[Len(s) + 1 - i]]

\* String.prototype.trim
Trim(s) == Reverse(DropWhile(Reverse(DropWhile(s, {" ", "\n"})), {" ", "\n"}))

RECURSIVE SplitSpaces(_)
\* s.split(/\s+/): the pieces between the runs of white space; "" gives [""].
SplitSpaces(s) ==
    LET piece == TakeUntil(s, {" ", "\n"})
        rest == SubSeq(s, Len(piece) + 1, Len(s))
    IN  IF rest = <<>> THEN <<piece>>
        ELSE <<piece>> \o SplitSpaces(DropWhile(rest, {" ", "\n"}))

RECURSIVE FilterNonEmpty(_)
\* items.filter(s => s.length > 0)
FilterNonEmpty(items) ==
    IF items = <<>> THEN <<>>
    ELSE IF Len(Head(items)) > 0 THEN <<Head(items)>> \o FilterNonEmpty(Tail(items))
    ELSE FilterNonEmpty(Tail(items))

\* node.textContent || ''
TextContent(node) == IF node = NoNode THEN <<>> ELSE node

\* extractItems(node), and the same expression wherever the loader inlines it:
\* text.replace(/[\n\r]+/g, ' ').trim().split(/\s+/).filter(s => s.length > 0)
extractItems(node) ==
    IF node = NoNode THEN <<>>
    ELSE FilterNonEmpty(SplitSpaces(Trim(ReplaceNewlines(TextContent(node)))))

\* JavaScript Set: the elements in insertion order, each once.
SetAdd(set, x) == IF x \in Range(set) THEN set ELSE Append(set, x)

RECURSIVE SetAddAll(_, _)
SetAddAll(set, items) ==
    IF items = <<>> THEN set ELSE SetAddAll(SetAdd(set, Head(items)), Tail(items))

RECURSIVE InsertSorted(_, _)
InsertSorted(sorted, x) ==
    IF sorted = <<>> THEN <<x>>
    ELSE IF StrLess(x, Head(sorted)) THEN <<x>> \o sorted
    ELSE <<Head(sorted)>> \o InsertSorted(Tail(sorted), x)

RECURSIVE SortStrings(_)
\* array.sort() of an array of strings: ascending by code units.
SortStrings(items) ==
    IF items = <<>> THEN <<>> ELSE InsertSorted(SortStrings(Tail(items)), Head(items))

----------------------------------------------------------------------------
(* fetchAndParseXML: definitions, family expansion, validation.            *)

\* def.getAttribute('familyid') || ''
FamilyIdAttr(def) == IF def.familyid = NoAttr THEN <<>> ELSE def.familyid

\* The keys of a Map filled by set(def.getAttribute('id'), ...) over the
\* elements in document order: each id once, in order of first insertion.
MapKeys(elems) == SetAddAll(<<>>, [i \in 1..Len(elems) |-> elems[i].id])

\* The element whose set() call was the last one for the key.
LastWithId(elems, id) ==
    elems[CHOOSE i \in 1..Len(elems) :
            /\ elems[i].id = id
            /\ \A j \in (i + 1)..Len(elems) : elems[j].id # id]

\* tabletDefs / penDefs as values: id -> { name, familyId }
ParseDefs(elems) ==
    [id \in Range(MapKeys(elems)) |->
        [name |-> LastWithId(elems, id).name,
         familyId |-> FamilyIdAttr(LastWithId(elems, id))]]

\* penFamilyDefs / tabletFamilyDefs: id -> name
ParseFamilyDefs(elems) ==
    [id \in Range(MapKeys(elems)) |-> LastWithId(elems, id).name]

\* familyToTablets / familyToPens: family id -> Set of member ids, filled in
\* document order from the definitions that carry a family id.
FamilyIndex(elems) ==
    [f \in {FamilyIdAttr(elems[i]) : i \in 1..Len(elems)} \ {<<>>} |->
        LET InFamily(def) == FamilyIdAttr(def) = f
            members == SelectSeq(elems, InFamily)
        IN  SetAddAll(<<>>, [i \in 1..Len(members) |-> members[i].id])]

\* A plausible slip: an unknown family id is kept in the row as if it were a
\* device id.
ExpandFamiliesKeepUnknown(set, families, index) ==
    SetAddAll(set, Concat([i \in 1..Len(families) |->
        IF families[i] \in DOMAIN index THEN index[families[i]] ELSE <<families[i]>>]))

\* families.forEach(familyId => { if (index.has(familyId)) index.get(familyId)
\* .forEach(id => set.add(id)); else console.warn(...) }): the Set afterwards.
ExpandFamilies(set, families, index) ==
    SetAddAll(set, Concat([i \in 1..Len(families) |->
        IF families[i] \in DOMAIN index THEN index[families[i]] ELSE <<>>]))

\* The console.warn calls of that loop.
UnknownFamilyWarnings(kind, families, index) ==
    LET Unknown(f) == f \notin DOMAIN index
        unknown == SelectSeq(families, Unknown)
    IN  [i \in 1..Len(unknown) |-> [warn |-> kind, id |-> unknown[i]]]

\* A plausible slip: the family members replace the direct ids of the row.
ProcessRowFamiliesOnly(row, familyToTablets, familyToPens) ==
    [tablets |-> IF row.tabletfamily = NoNode
                 THEN SetAddAll(<<>>, extractItems(row.tablet))
                 ELSE ExpandFamilies(<<>>, extractItems(row.tabletfamily), familyToTablets),
     pens |-> IF row.penfamily = NoNode
              THEN SetAddAll(<<>>, extractItems(row.pen))
              ELSE ExpandFamilies(<<>>, extractItems(row.penfamily), familyToPens)]

\* The object one compatrow is mapped to: { tablets: tabletArray, pens: penArray }
ProcessRow(row, familyToTablets, familyToPens) ==
    [tablets |-> ExpandFamilies(SetAddAll(<<>>, extractItems(row.tablet)),
                                extractItems(row.tabletfamily), familyToTablets),
     pens |-> ExpandFamilies(SetAddAll(<<>>, extractItems(row.pen)),
                             extractItems(row.penfamily), familyToPens)]

\* The unknown-family warnings of one compatrow, tablet families first.
RowWarnings(row, familyToTablets, familyToPens) ==
    UnknownFamilyWarnings("unknown-tablet-family", extractItems(row.tabletfamily),
                          familyToTablets)
    \o UnknownFamilyWarnings("unknown-pen-family", extractItems(row.penfamily),
                             familyToPens)

RECURSIVE SortedArray(_)
\* Array.from(set).sort() of a set of strings: its elements, ascending.
SortedArray(set) ==
    IF set = {} THEN <<>>
    ELSE LET least == CHOOSE x \in set : \A y \in set \ {x} : StrLess(x, y)
         IN  <<least>> \o SortedArray(set \ {least})

\* A plausible slip: the unused definitions are listed before the rows are
\* processed, when no id has been recorded as used yet.
ValidationWarningsUnusedFirst(rows, tabletDefs, penDefs) ==
    LET usedTablets == UNION {Range(rows[i].tablets) : i \in 1..Len(rows)}
        usedPens == UNION {Range(rows[i].pens) : i \in 1..Len(rows)}
        missingTabletDefs == usedTablets \ DOMAIN tabletDefs
        missingPens == SortedArray(usedPens \ DOMAIN penDefs)
        unusedTabletDefs == DOMAIN tabletDefs
        unusedPenDefs == DOMAIN penDefs
        ReferencedBy(pen) ==
            UNION {Range(rows[i].tablets) :
                     i \in {j \in 1..Len(rows) : pen \in Range(rows[j].pens)}}
    IN  (IF missingTabletDefs # {}
         THEN <<[warn |-> "missing-tablet-defs", ids |-> SortedArray(missingTabletDefs)]>>
         ELSE <<>>)
        \o (IF missingPens # <<>>
            THEN <<[warn |-> "missing-pen-defs"]>>
                 \o [i \in 1..Len(missingPens) |->
                        [warn |-> "missing-pen", id |-> missingPens[i],
                         referencedBy |-> SortedArray(ReferencedBy(missingPens[i]))]]
            ELSE <<>>)
        \o (IF unusedTabletDefs # {}
            THEN <<[warn |-> "unused-tablet-defs", ids |-> SortedArray(unusedTabletDefs)]>>
            ELSE <<>>)
        \o (IF unusedPenDefs # {}
            THEN <<[warn |-> "unused-pen-defs", ids |-> SortedArray(unusedPenDefs)]>>
            ELSE <<>>)

\* The validation report printed after the rows are processed.
ValidationWarnings(rows, tabletDefs, penDefs) ==
    LET usedTablets == UNION {Range(rows[i].tablets) : i \in 1..Len(rows)}
        usedPens == UNION {Range(rows[i].pens) : i \in 1..Len(rows)}
        missingTabletDefs == usedTablets \ DOMAIN tabletDefs
        missingPens == SortedArray(usedPens \ DOMAIN penDefs)
        unusedTabletDefs == DOMAIN tabletDefs \ usedTablets
        unusedPenDefs == DOMAIN penDefs \ usedPens
        ReferencedBy(pen) ==
            UNION {Range(rows[i].tablets) :
                     i \in {j \in 1..Len(rows) : pen \in Range(rows[j].pens)}}
    IN  (IF missingTabletDefs # {}
         THEN <<[warn |-> "missing-tablet-defs", ids |-> SortedArray(missingTabletDefs)]>>
         ELSE <<>>)
        \o (IF missingPens # <<>>
            THEN <<[warn |-> "missing-pen-defs"]>>
                 \o [i \in 1..Len(missingPens) |->
                        [warn |-> "missing-pen", id |-> missingPens[i],
                         referencedBy |-> SortedArray(ReferencedBy(missingPens[i]))]]
            ELSE <<>>)
        \o (IF unusedTabletDefs # {}
            THEN <<[warn |-> "unused-tablet-defs", ids |-> SortedArray(unusedTabletDefs)]>>
            ELSE <<>>)
        \o (IF unusedPenDefs # {}
            THEN <<[warn |-> "unused-pen-defs", ids |-> SortedArray(unusedPenDefs)]>>
            ELSE <<>>)

\* The address of element x of a duplicate-free sequence, counted from base.
AddressIn(keys, x, base) == base + (CHOOSE i \in 1..Len(keys) : keys[i] = x)

\* What fetchAndParseXML(url) returns for a well-formed document, the objects
\* it creates being stored from address base + 1 on: the definition entries of
\* the tablets, those of the pens, then the row objects.
fetchAndParseXML(doc, base) ==
    LET tabletDefs == ParseDefs(doc.tabletdefs)
        penDefs == ParseDefs(doc.pendefs)
        familyToTablets == FamilyIndex(doc.tabletdefs)
        familyToPens == FamilyIndex(doc.pendefs)
        tabletKeys == MapKeys(doc.tabletdefs)
        penKeys == MapKeys(doc.pendefs)
        processedRows == [i \in 1..Len(doc.compatrows) |->
                            ProcessRow(doc.compatrows[i], familyToTablets, familyToPens)]
        rowBase == base + Len(tabletKeys) + Len(penKeys)
    IN  [data |->
            [rows |-> [i \in 1..Len(processedRows) |-> rowBase + i],
             tabletDefs |-> [id \in DOMAIN tabletDefs |-> AddressIn(tabletKeys, id, base)],
             penDefs |-> [id \in DOMAIN penDefs |->
                            AddressIn(penKeys, id, base + Len(tabletKeys))],
             penFamilyDefs |-> ParseFamilyDefs(doc.penfamilydefs),
             tabletFamilyDefs |-> ParseFamilyDefs(doc.tabletfamilydefs)],
         objects |->
            [i \in 1..Len(tabletKeys) |-> tabletDefs[tabletKeys[i]]]
            \o [i \in 1..Len(penKeys) |-> penDefs[penKeys[i]]]
            \o processedRows,
         warnings |->
            Concat([i \in 1..Len(doc.compatrows) |->
                      RowWarnings(doc.compatrows[i], familyToTablets, familyToPens)])
            \o ValidationWarnings(processedRows, tabletDefs, penDefs)]

\* A dataset with every address replaced by the object stored there.
Deref(data, store) ==
    [rows |-> [i \in 1..Len(data.rows) |-> store[data.rows[i]]],
     tabletDefs |-> [id \in DOMAIN data.tabletDefs |-> store[data.tabletDefs[id]]],
     penDefs |-> [id \in DOMAIN data.penDefs |-> store[data.penDefs[id]]],
     penFamilyDefs |-> data.penFamilyDefs,
     tabletFamilyDefs |-> data.tabletFamilyDefs]

----------------------------------------------------------------------------
(* Direct calls of compareDeviceIds.                                       *)

MaxIdLen == 2

CmpIds == SeqsUpTo({"A", "B"}, MaxIdLen) \ {<<>>}
CmpFamilies == {Undefined, <<>>, <<"A">>, <<"B">>, <<"A", "B">>}

\* A definition table over the ids a, b and c: fam gives each its family id,
\* or Undefined when the id has no definition.
CmpDefs(fam) ==
    [id \in {i \in DOMAIN fam : fam[i] # Undefined} |->
        [familyId |-> fam[id], name |-> <<>>]]

CompareInit ==
    /\ \E a \in CmpIds, b \in CmpIds, c \in CmpIds :
         \E fam \in [{a, b, c} -> CmpFamilies] :
            callArgs = [fn |-> "compareDeviceIds", a |-> a, b |-> b, c |-> c,
                        defs |-> CmpDefs(fam)]
    /\ callResult = NoResult
    /\ LoaderIdle /\ RenderIdle

CallCompare ==
    /\ callArgs # NoData
    /\ callArgs.fn = "compareDeviceIds"
    /\ callResult = NoResult
    /\ callResult' =
         [ab |-> compareDeviceIds(callArgs.a, callArgs.b, callArgs.defs),
          ba |-> compareDeviceIds(callArgs.b, callArgs.a, callArgs.defs),
          bc |-> compareDeviceIds(callArgs.b, callArgs.c, callArgs.defs),
          ac |-> compareDeviceIds(callArgs.a, callArgs.c, callArgs.defs)]
    /\ UNCHANGED <<loaderVars, renderVars, callArgs>>

CompareNext == CallCompare

SpecCompare == CompareInit /\ [][CompareNext]_vars

\* The (familyId, id) tuple of an id, "" standing for a missing definition.
KeyOf(id, defsMap) == <<DefOrDefault(defsMap, id).familyId, id>>

\* s sorts strictly before t: at the first index where they differ, s has ended
\* or holds the smaller code unit.
LexBefore(s, t) ==
    \E k \in 1..Len(t) :
        /\ \A j \in 1..(k - 1) : j <= Len(s) /\ s[j] = t[j]
        /\ \/ Len(s) = k - 1
           \/ Len(s) >= k /\ CharCode[s[k]] < CharCode[t[k]]

\* Lexicographic order of two (familyId, id) tuples.
TupleOrder(p, q) ==
    IF LexBefore(p[1], q[1]) THEN -1
    ELSE IF LexBefore(q[1], p[1]) THEN 1
    ELSE IF LexBefore(p[2], q[2]) THEN -1
    ELSE IF LexBefore(q[2], p[2]) THEN 1
    ELSE 0

\* C3: compareDeviceIds is a total order on device ids: it is 0 only for equal
\* ids, compare(a,b) = -compare(b,a), it is transitive, and it agrees with the
\* lexicographic order of the (familyId, id) tuples, the family id "" of an
\* undefined id sorting before every non-empty family id.
C3_CompareTotalOrder ==
    callArgs # NoData /\ callArgs.fn = "compareDeviceIds" /\ callResult # NoResult =>
        /\ (callResult.ab = 0 <=> callArgs.a = callArgs.b)
        /\ callResult.ab = -callResult.ba
        /\ (callResult.ab <= 0 /\ callResult.bc <= 0 => callResult.ac <= 0)
        /\ (callResult.ab < 0 /\ callResult.bc < 0 => callResult.ac < 0)
        /\ callResult.ab = TupleOrder(KeyOf(callArgs.a, callArgs.defs),
                                      KeyOf(callArgs.b, callArgs.defs))
        /\ (callArgs.a \notin DOMAIN callArgs.defs
              /\ callArgs.b \in DOMAIN callArgs.defs
              /\ callArgs.defs[callArgs.b].familyId # <<>>
            => callResult.ab = -1)

\* An undefined id was compared with an id of a non-empty family, and two
\* different ids of one family were told apart by their ids.
C3_Witness ==
    /\ callArgs # NoData /\ callArgs.fn = "compareDeviceIds" /\ callResult # NoResult
    /\ callArgs.a \notin DOMAIN callArgs.defs
    /\ callArgs.b \in DOMAIN callArgs.defs /\ callArgs.c \in DOMAIN callArgs.defs
    /\ callArgs.b # callArgs.c
    /\ callArgs.defs[callArgs.b].familyId = <<"A">>
    /\ callArgs.defs[callArgs.c].familyId = <<"A">>
    /\ callResult.ab = -1 /\ callResult.bc = 1 /\ callResult.ac = -1

----------------------------------------------------------------------------
(* Direct calls of createGlobRegex(pattern).test(text).                    *)

MaxGlobLen == 2

Glob_abcStar == <<"a", "b", "c", "*">>
Glob_aQc == <<"a", "?", "c">>

GlobPatterns ==
    {Glob_abcStar, Glob_aQc} \cup SeqsUpTo({"a", "c", "*", "?", "."}, MaxGlobLen)

GlobTexts ==
    { <<"a", "b", "c", "d", "e", "f">>, <<"A", "B", "C", "1", "2", "3">>,
      <<"x", "a", "b", "c">>, <<"a", "b", "c">>, <<"a", "c">>,
      <<"a", "b", "b", "c">>, <<"a", ".", "c">>, <<>> }

GlobInit ==
    /\ \E pattern \in GlobPatterns, text \in GlobTexts :
         callArgs = [fn |-> "createGlobRegex", pattern |-> pattern, text |-> text]
    /\ callResult = NoResult
    /\ LoaderIdle /\ RenderIdle

CallGlob ==
    /\ callArgs # NoData
    /\ callArgs.fn = "createGlobRegex"
    /\ callResult = NoResult
    /\ callResult' = [matches |-> RegExpTest(createGlobRegex(callArgs.pattern),
                                             callArgs.text)]
    /\ UNCHANGED <<loaderVars, renderVars, callArgs>>

GlobNext == CallGlob

SpecGlob == GlobInit /\ [][GlobNext]_vars

GlobCalled(pattern, text) ==
    /\ callArgs # NoData /\ callArgs.fn = "createGlobRegex" /\ callResult # NoResult
    /\ callArgs.pattern = pattern /\ callArgs.text = text

\* C4 as stated: the matcher of abc* accepts "abcdef" and "ABC123" and rejects
\* "xabc"; the matcher of a?c accepts "abc" and rejects "ac" and "abbc".
C4_GlobAsStated ==
    /\ GlobCalled(Glob_abcStar, <<"a", "b", "c", "d", "e", "f">>) => callResult.matches
    /\ GlobCalled(Glob_abcStar, <<"A", "B", "C", "1", "2", "3">>) => callResult.matches
    /\ GlobCalled(Glob_abcStar, <<"x", "a", "b", "c">>) => ~callResult.matches
    /\ GlobCalled(Glob_aQc, <<"a", "b", "c">>) => callResult.matches
    /\ GlobCalled(Glob_aQc, <<"a", "c">>) => ~callResult.matches
    /\ GlobCalled(Glob_aQc, <<"a", "b", "b", "c">>) => ~callResult.matches

\* C4 amended: the matcher searches for the pattern anywhere in the text, so
\* abc* accepts "abcdef", "ABC123" and also "xabc"; a?c accepts "abc" and
\* rejects "ac" and "abbc", which hold no a, one character, c in a row.
C4_GlobUnanchored ==
    /\ GlobCalled(Glob_abcStar, <<"a", "b", "c", "d", "e", "f">>) => callResult.matches
    /\ GlobCalled(Glob_abcStar, <<"A", "B", "C", "1", "2", "3">>) => callResult.matches
    /\ GlobCalled(Glob_abcStar, <<"x", "a", "b", "c">>) => callResult.matches
    /\ GlobCalled(Glob_aQc, <<"a", "b", "c">>) => callResult.matches
    /\ GlobCalled(Glob_aQc, <<"a", "c">>) => ~callResult.matches
    /\ GlobCalled(Glob_aQc, <<"a", "b", "b", "c">>) => ~callResult.matches

\* The matcher of abc* was run on "xabc" and accepted it.
C4_Witness ==
    GlobCalled(Glob_abcStar, <<"x", "a", "b", "c">>) /\ callResult.matches

----------------------------------------------------------------------------
(* Loading.                                                                *)

MaxData == 2

\* A plausible slip: the document is parsed before the parser error is looked
\* for, and what was parsed is delivered with the error.
LoadDeliversPartial(doc) ==
    /\ Len(dataList) < MaxData
    /\ xmlDoc' = doc
    /\ IF ~doc.httpOk
       THEN /\ thrown' = "Network response was not ok"
            /\ UNCHANGED <<dataList, heap, console>>
       ELSE LET r == fetchAndParseXML(doc, Len(heap))
            IN  /\ dataList' = Append(dataList, r.data)
                /\ heap' = heap \o r.objects
                /\ console' = console \o r.warnings
                /\ thrown' = IF doc.wellFormed THEN NoError ELSE "XML parsing failed"
    /\ UNCHANGED <<mergedData, renderVars, callVars>>

\* One call of fetchAndParseXML(url), doc being the response behind the url:
\* it throws on a response that is not ok and on a document that is not
\* well-formed, and otherwise returns a dataset of fresh objects.
Load(doc) ==
    /\ Len(dataList) < MaxData
    /\ xmlDoc' = doc
    /\ IF ~doc.httpOk
       THEN /\ thrown' = "Network response was not ok"
            /\ UNCHANGED <<dataList, heap, console>>
       ELSE IF ~doc.wellFormed
       THEN /\ thrown' = "XML parsing failed"
            /\ UNCHANGED <<dataList, heap, console>>
       ELSE LET r == fetchAndParseXML(doc, Len(heap))
            IN  /\ dataList' = Append(dataList, r.data)
                /\ heap' = heap \o r.objects
                /\ console' = console \o r.warnings
                /\ thrown' = NoError
    /\ UNCHANGED <<mergedData, renderVars, callVars>>

----------------------------------------------------------------------------
(* Documents.                                                              *)

T0 == <<"T", "0">>
T1 == <<"T", "1">>
T2 == <<"T", "2">>
T3 == <<"T", "3">>
P0 == <<"P", "0">>
P1 == <<"P", "1">>
P2 == <<"P", "2">>
F1 == <<"F", "1">>
F2 == <<"F", "2">>
FX == <<"F", "X">>
G1 == <<"G", "1">>
GX == <<"G", "X">>

DeviceDef(id, name, familyid) == [id |-> id, name |-> name, familyid |-> familyid]
FamilyDef(id, name) == [id |-> id, name |-> name]

\* The text of a node that lists the tokens: on one line, or one per line
\* with indentation, as the hand-written data files do.
NodeText(tokens, layout) ==
    IF layout = "line"
    THEN Concat([i \in 1..Len(tokens) |->
                    IF i = 1 THEN tokens[i] ELSE <<" ">> \o tokens[i]])
    ELSE <<"\n", " ">> \o Concat([i \in 1..Len(tokens) |-> tokens[i] \o <<"\n", " ">>])

\* A child node of a compatrow: absent, or holding the text of the tokens.
Nodes(tokenLists, layout) ==
    {NoNode} \cup {NodeText(tokens, layout) : tokens \in tokenLists}

CompatRow(tablet, pen, tabletfamily, penfamily) ==
    [tablet |-> tablet, pen |-> pen, tabletfamily |-> tabletfamily,
     penfamily |-> penfamily]

Document(tabletdefs, pendefs, tabletfamilydefs, penfamilydefs, compatrows) ==
    [httpOk |-> TRUE, wellFormed |-> TRUE,
     tabletdefs |-> tabletdefs, pendefs |-> pendefs,
     tabletfamilydefs |-> tabletfamilydefs, penfamilydefs |-> penfamilydefs,
     compatrows |-> compatrows]

\* Three catalogues of definitions, ids unique within each; the same ids
\* carry different names and families from one catalogue to the next.
Catalogue(c, compatrows) ==
    IF c = 1
    THEN Document(<<DeviceDef(T1, <<"a">>, F1), DeviceDef(T2, <<"b">>, F1),
                    DeviceDef(T3, <<"c">>, NoAttr)>>,
                  <<DeviceDef(P1, <<"a">>, G1), DeviceDef(P2, <<"b">>, G1)>>,
                  <<FamilyDef(F1, <<"f">>)>>, <<FamilyDef(G1, <<"o">>)>>,
                  compatrows)
    ELSE IF c = 2
    THEN Document(<<DeviceDef(T3, <<"c">>, F2), DeviceDef(T1, <<"a">>, F1),
                    DeviceDef(T2, <<>>, <<>>)>>,
                  <<DeviceDef(P2, <<"b">>, NoAttr), DeviceDef(P1, <<"a">>, G1)>>,
                  <<FamilyDef(F2, <<"x">>)>>,
                  <<FamilyDef(G1, <<"o">>), FamilyDef(GX, <<"x">>)>>,
                  compatrows)
    ELSE Document(<<DeviceDef(T1, <<"c">>, F2)>>,
                  <<DeviceDef(P1, <<"b">>, NoAttr), DeviceDef(P0, <<"o">>, G1)>>,
                  <<FamilyDef(F1, <<"x">>)>>, <<FamilyDef(G1, <<"x">>)>>,
                  compatrows)

MaxTokens == 2
MaxPenTokens == 1

TabletTokenLists == SeqsUpTo({T1, T3, T0}, MaxTokens)
TabletFamilyTokenLists == SeqsUpTo({F1, FX}, MaxTokens)
PenTokenLists == SeqsUpTo({P1, P0}, MaxPenTokens)
PenFamilyTokenLists == SeqsUpTo({G1, GX}, MaxPenTokens)

\* Every combination of the tablet-side nodes beside one pen, and of the
\* pen-side nodes beside one tablet, written on one line.
LoadRows ==
    {CompatRow(t, NodeText(<<P1>>, "line"), tf, NoNode) :
        t \in Nodes(TabletTokenLists, "line"),
        tf \in Nodes(TabletFamilyTokenLists, "line")}
    \cup {CompatRow(NodeText(<<T1>>, "line"), p, NoNode, pf) :
        p \in Nodes(PenTokenLists, "line"), pf \in Nodes(PenFamilyTokenLists, "line")}

\* The tablet side again, written one id per line.
LoadRowsMultiLine ==
    {CompatRow(t, NodeText(<<P1>>, "lines"), tf, NoNode) :
        t \in Nodes(TabletTokenLists, "lines"),
        tf \in Nodes(TabletFamilyTokenLists, "lines")}

\* A few rows to stand beside another row of the same document.
OtherRows ==
    {CompatRow(NodeText(<<T1>>, "line"), NodeText(<<P1>>, "line"), NoNode, NoNode),
     CompatRow(NodeText(<<T3>>, "line"), NoNode, NodeText(<<FX>>, "line"),
               NodeText(<<G1>>, "line")),
     CompatRow(NoNode, NodeText(<<P0>>, "line"), NodeText(<<F1>>, "line"),
               NodeText(<<GX>>, "line"))}

BrokenDocuments ==
    {[Catalogue(1, <<>>) EXCEPT !.httpOk = FALSE],
     [Catalogue(1, <<>>) EXCEPT !.wellFormed = FALSE]}

LoadDocs ==
    {Catalogue(c, <<row>>) : c \in {1, 2}, row \in LoadRows \cup LoadRowsMultiLine}
    \cup {Catalogue(c, <<r1, r2>>) : c \in {1, 2}, r1 \in OtherRows, r2 \in OtherRows}
    \cup {Catalogue(c, <<>>) : c \in {1, 2}}
    \cup BrokenDocuments

LoadInit ==
    /\ xmlDoc \in LoadDocs
    /\ dataList = <<>> /\ heap = <<>> /\ mergedData = NoData
    /\ console = <<>> /\ thrown = NoError
    /\ RenderIdle /\ CallIdle

\* The page fetches the url again: the same document is loaded once more.
LoadNext == Load(xmlDoc)

SpecLoad == LoadInit /\ [][LoadNext]_vars

----------------------------------------------------------------------------
(* Claims about loading.                                                   *)

\* The ids a node lists: the maximal runs of characters that are not white
\* space. An absent node lists none.
TokensOf(node) ==
    IF node = NoNode THEN {}
    ELSE {SubSeq(node, i, j) : <<i, j>> \in
            {p \in (1..Len(node)) \X (1..Len(node)) :
                /\ p[1] <= p[2]
                /\ \A k \in p[1]..p[2] : node[k] \notin {" ", "\n"}
                /\ (p[1] = 1 \/ node[p[1] - 1] \in {" ", "\n"})
                /\ (p[2] = Len(node) \/ node[p[2] + 1] \in {" ", "\n"})}}

\* The devices whose definition names the family.
MembersOf(defElems, familyId) ==
    {defElems[i].id : i \in {j \in 1..Len(defElems) : defElems[j].familyid = familyId}}

\* The family ids some definition names.
KnownFamilies(defElems) ==
    {defElems[i].familyid : i \in 1..Len(defElems)} \ {NoAttr, <<>>}

\* The effective sets of a compatrow: its direct ids together with the members
\* of every family it references.
EffectiveTablets(doc, row) ==
    TokensOf(row.tablet)
    \cup UNION {MembersOf(doc.tabletdefs, f) : f \in TokensOf(row.tabletfamily)}

EffectivePens(doc, row) ==
    TokensOf(row.pen)
    \cup UNION {MembersOf(doc.pendefs, f) : f \in TokensOf(row.penfamily)}

\* The same document with the tokens of every node in reverse order.
Reordered(doc) ==
    LET Rev(node) == IF node = NoNode THEN NoNode
                     ELSE NodeText(Reverse(extractItems(node)), "lines")
    IN  [doc EXCEPT !.compatrows = [i \in 1..Len(doc.compatrows) |->
            CompatRow(Rev(doc.compatrows[i].tablet), Rev(doc.compatrows[i].pen),
                      Rev(doc.compatrows[i].tabletfamily),
                      Rev(doc.compatrows[i].penfamily))]]

\* The same document with the text of every node written twice.
Repeated(doc) ==
    LET Twice(node) == IF node = NoNode THEN NoNode ELSE node \o <<"\n">> \o node
    IN  [doc EXCEPT !.compatrows = [i \in 1..Len(doc.compatrows) |->
            CompatRow(Twice(doc.compatrows[i].tablet), Twice(doc.compatrows[i].pen),
                      Twice(doc.compatrows[i].tabletfamily),
                      Twice(doc.compatrows[i].penfamily))]]

\* The rows fetchAndParseXML returns for a document, as values.
LoadedRows(doc) ==
    LET r == fetchAndParseXML(doc, 0) IN Deref(r.data, r.objects).rows

SameSets(rows1, rows2) ==
    /\ Len(rows1) = Len(rows2)
    /\ \A k \in 1..Len(rows1) :
        /\ Range(rows1[k].tablets) = Range(rows2[k].tablets)
        /\ Range(rows1[k].pens) = Range(rows2[k].pens)

C7_FamilyReferencesResolved ==
    xmlDoc # NoData /\ xmlDoc.httpOk /\ xmlDoc.wellFormed /\ dataList # <<>> =>
        /\ thrown = NoError
        /\ \A d \in 1..Len(dataList) :
            LET rows == Deref(dataList[d], heap).rows
            IN  /\ Len(rows) = Len(xmlDoc.compatrows)
                /\ \A k \in 1..Len(rows) :
                    LET row == xmlDoc.compatrows[k]
                        tf == TokensOf(row.tabletfamily)
                        pf == TokensOf(row.penfamily)
                        knownT == tf \cap KnownFamilies(xmlDoc.tabletdefs)
                        knownP == pf \cap KnownFamilies(xmlDoc.pendefs)
                    IN  /\ Range(rows[k].tablets) \cap tf = {}
                        /\ Range(rows[k].pens) \cap pf = {}
                        /\ TokensOf(row.tablet) \subseteq Range(rows[k].tablets)
                        /\ TokensOf(row.pen) \subseteq Range(rows[k].pens)
                        /\ Range(rows[k].tablets) \ TokensOf(row.tablet)
                             \subseteq UNION {MembersOf(xmlDoc.tabletdefs, f) : f \in knownT}
                        /\ Range(rows[k].pens) \ TokensOf(row.pen)
                             \subseteq UNION {MembersOf(xmlDoc.pendefs, f) : f \in knownP}
                        /\ \A f \in tf \ knownT :
                             [warn |-> "unknown-tablet-family", id |-> f] \in Range(console)
                        /\ \A f \in pf \ knownP :
                             [warn |-> "unknown-pen-family", id |-> f] \in Range(console)

\* A document whose first row references the unknown tablet family FX beside
\* the direct tablet T3 was loaded: the row holds T3 alone and the second row
\* holds the members of the known family F1.
C7_Witness ==
    /\ dataList # <<>> /\ thrown = NoError
    /\ Len(xmlDoc.compatrows) = 2
    /\ TokensOf(xmlDoc.compatrows[1].tabletfamily) = {FX}
    /\ TokensOf(xmlDoc.compatrows[2].tabletfamily) = {F1}
    /\ heap[dataList[1].rows[1]].tablets = <<T3>>
    /\ Range(heap[dataList[1].rows[2]].tablets) = {T1, T2}
    /\ [warn |-> "unknown-tablet-family", id |-> FX] \in Range(console)

----------------------------------------------------------------------------
(* mergeCompatData.                                                        *)

\* A plausible slip: an id that is already in the merged table keeps its value.
MapSetAllKeepFirst(merged, src) ==
    [key \in DOMAIN merged \cup DOMAIN src |->
        IF key \in DOMAIN merged THEN merged[key] ELSE src[key]]

\* src.forEach((val, key) => merged.set(key, val)): the entries of src are
\* put into merged, the value object itself being stored, not a copy.
MapSetAll(merged, src) ==
    [key \in DOMAIN merged \cup DOMAIN src |->
        IF key \in DOMAIN src THEN src[key] ELSE merged[key]]

EmptyMap == [key \in {} |-> NoData]

EmptyDataset ==
    [rows |-> <<>>, tabletDefs |-> EmptyMap, penDefs |-> EmptyMap,
     penFamilyDefs |-> EmptyMap, tabletFamilyDefs |-> EmptyMap]

\* A plausible slip: a row object that is already in the list is not added.
MergeOneDedupRows(acc, data) ==
    [rows |-> SetAddAll(acc.rows, data.rows),
     tabletDefs |-> MapSetAll(acc.tabletDefs, data.tabletDefs),
     penDefs |-> MapSetAll(acc.penDefs, data.penDefs),
     penFamilyDefs |-> MapSetAll(acc.penFamilyDefs, data.penFamilyDefs),
     tabletFamilyDefs |-> MapSetAll(acc.tabletFamilyDefs, data.tabletFamilyDefs)]

\* One turn of dataList.forEach in mergeCompatData.
MergeOne(acc, data) ==
    [rows |-> acc.rows \o data.rows,
     tabletDefs |-> MapSetAll(acc.tabletDefs, data.tabletDefs),
     penDefs |-> MapSetAll(acc.penDefs, data.penDefs),
     penFamilyDefs |-> MapSetAll(acc.penFamilyDefs, data.penFamilyDefs),
     tabletFamilyDefs |-> MapSetAll(acc.tabletFamilyDefs, data.tabletFamilyDefs)]

RECURSIVE MergeFrom(_, _)
MergeFrom(acc, list) ==
    IF list = <<>> THEN acc ELSE MergeFrom(MergeOne(acc, Head(list)), Tail(list))

\* mergeCompatData(dataList): rows and entries are addresses of the objects
\* of the inputs.
mergeCompatData(list) == MergeFrom(EmptyDataset, list)

MaxMergeList == 2

\* A call of mergeCompatData with a list of datasets loaded before, in any
\* order and possibly the same one twice.
Merge ==
    \E picks \in SeqsUpTo(1..Len(dataList), MaxMergeList) :
        /\ callArgs' = [fn |-> "mergeCompatData", picks |-> picks]
        /\ mergedData' = mergeCompatData([i \in 1..Len(picks) |-> dataList[picks[i]]])
        /\ callResult' = NoResult
        /\ UNCHANGED <<xmlDoc, dataList, heap, console, thrown, renderVars>>

Mutated(object) ==
    \/ "name" \in DOMAIN object /\ object.name = <<"Z">>
    \/ "pens" \in DOMAIN object /\ <<"Z">> \in Range(object.pens)

\* The page changes a loaded dataset in place after a merge: it renames a
\* definition entry, data.tabletDefs.get(id).name = 'Z'.
MutateSourceEntry ==
    /\ mergedData # NoData
    /\ \A a \in 1..Len(heap) : ~Mutated(heap[a])
    /\ \E d \in 1..Len(dataList), table \in {"tabletDefs", "penDefs"} :
        \E id \in DOMAIN dataList[d][table] :
            heap' = [heap EXCEPT ![dataList[d][table][id]].name = <<"Z">>]
    /\ UNCHANGED <<xmlDoc, dataList, mergedData, console, thrown, renderVars, callVars>>

\* The page changes a row of a loaded dataset in place after a merge:
\* data.rows[k].pens.push('Z').
MutateSourceRow ==
    /\ mergedData # NoData
    /\ \A a \in 1..Len(heap) : ~Mutated(heap[a])
    /\ \E d \in 1..Len(dataList) :
        \E k \in 1..Len(dataList[d].rows) :
            heap' = [heap EXCEPT ![dataList[d].rows[k]].pens = Append(@, <<"Z">>)]
    /\ UNCHANGED <<xmlDoc, dataList, mergedData, console, thrown, renderVars, callVars>>

MergeDocs ==
    {Catalogue(1, <<CompatRow(NodeText(<<T3>>, "line"), NoNode,
                              NodeText(<<FX>>, "line"), NodeText(<<G1>>, "line")),
                    CompatRow(NoNode, NodeText(<<P0>>, "line"),
                              NodeText(<<F1>>, "line"), NodeText(<<GX>>, "line"))>>),
     Catalogue(2, <<CompatRow(NodeText(<<T1>>, "line"), NodeText(<<P1>>, "line"),
                              NoNode, NoNode)>>),
     Catalogue(3, <<CompatRow(NodeText(<<T1>>, "line"), NodeText(<<P1>>, "line"),
                              NoNode, NodeText(<<G1>>, "line"))>>),
     [Catalogue(1, <<>>) EXCEPT !.wellFormed = FALSE]}

MergeInit == LoaderIdle /\ RenderIdle /\ CallIdle

MergeNext ==
    \/ \E doc \in MergeDocs : Load(doc)
    \/ Merge
    \/ MutateSourceEntry
    \/ MutateSourceRow

SpecMerge == MergeInit /\ [][MergeNext]_vars

\* The datasets the last mergeCompatData call was given.
MergeInputs == [i \in 1..Len(callArgs.picks) |-> dataList[callArgs.picks[i]]]

Merged == callArgs # NoData /\ callArgs.fn = "mergeCompatData" /\ mergedData # NoData

DefTables == {"tabletDefs", "penDefs", "penFamilyDefs", "tabletFamilyDefs"}

\* C8: the merged rows are the input datasets' rows concatenated in list order,
\* none dropped, and each of the four definition tables maps every id defined
\* in some input to the value the last input that defines it gives.
C8_MergeLastWriteWins ==
    Merged =>
        LET in == MergeInputs
            out == Deref(mergedData, heap)
            vals == [i \in 1..Len(in) |-> Deref(in[i], heap)]
            Before(i) == IF i = 1 THEN 0
                         ELSE Len(Concat([j \in 1..(i - 1) |-> in[j].rows]))
        IN  /\ Len(out.rows) = Len(Concat([i \in 1..Len(in) |-> in[i].rows]))
            /\ \A i \in 1..Len(in) : \A k \in 1..Len(in[i].rows) :
                 out.rows[Before(i) + k] = vals[i].rows[k]
            /\ \A table \in DefTables :
                /\ DOMAIN out[table] = UNION {DOMAIN in[i][table] : i \in 1..Len(in)}
                /\ \A i \in 1..Len(in) : \A id \in DOMAIN in[i][table] :
                     (\A j \in (i + 1)..Len(in) : id \notin DOMAIN in[j][table])
                        => out[table][id] = vals[i][table][id]

\* Two datasets that define T1 with different names were merged, and the
\* merged table holds the name of the second.
C8_Witness ==
    /\ Merged /\ Len(callArgs.picks) = 2
    /\ LET in == MergeInputs
       IN  /\ T1 \in DOMAIN in[1].tabletDefs /\ T1 \in DOMAIN in[2].tabletDefs
           /\ heap[in[1].tabletDefs[T1]].name = <<"a">>
           /\ heap[in[2].tabletDefs[T1]].name = <<"c">>
           /\ heap[mergedData.tabletDefs[T1]].name = <<"c">>
           /\ in[1].penFamilyDefs[G1] # in[2].penFamilyDefs[G1]
           /\ Len(mergedData.rows) = 3

\* C9: merging a dataset with itself gives definition tables equal to its own
\* and its rows twice over, one copy after the other.
C9_MergeWithItself ==
    Merged /\ Len(callArgs.picks) = 2 /\ callArgs.picks[1] = callArgs.picks[2] =>
        LET a == Deref(dataList[callArgs.picks[1]], heap)
            out == Deref(mergedData, heap)
        IN  /\ \A table \in DefTables : out[table] = a[table]
            /\ out.rows = a.rows \o a.rows
            /\ Len(out.rows) = 2 * Len(a.rows)

\* A dataset with two rows was merged with itself into four rows.
C9_Witness ==
    /\ Merged /\ Len(callArgs.picks) = 2 /\ callArgs.picks[1] = callArgs.picks[2]
    /\ Len(dataList[callArgs.picks[1]].rows) = 2
    /\ Len(mergedData.rows) = 4
    /\ DOMAIN mergedData.tabletDefs = {T1, T2, T3}

\* C10 as stated: a merge leaves its source datasets as they were, and once a
\* merged dataset exists, a change made in place to an entry or a row of a
\* source leaves the merged dataset as it was.
C10_NoAliasing ==
    [][/\ (mergedData' # mergedData => 
             [d \in 1..Len(dataList) |-> Deref(dataList[d], heap)]
               = [d \in 1..Len(dataList) |-> Deref(dataList'[d], heap')])
       /\ (mergedData # NoData /\ mergedData' = mergedData =>
             Deref(mergedData', heap') = Deref(mergedData, heap))]_vars

----------------------------------------------------------------------------
(* The view projections.                                                   *)

RECURSIVE InsertByDeviceId(_, _, _)
\* x put before the first element that the comparator places after it.
InsertByDeviceId(sorted, x, defsMap) ==
    IF sorted = <<>> THEN <<x>>
    ELSE IF compareDeviceIds(x, Head(sorted), defsMap) < 0 THEN <<x>> \o sorted
    ELSE <<Head(sorted)>> \o InsertByDeviceId(Tail(sorted), x, defsMap)

RECURSIVE sortItems(_, _)
\* items.sort(comparator), the comparator being the body of compareDeviceIds;
\* Array.prototype.sort is stable.
sortItems(items, defsMap) ==
    IF items = <<>> THEN <<>>
    ELSE InsertByDeviceId(sortItems(SubSeq(items, 1, Len(items) - 1), defsMap),
                          items[Len(items)], defsMap)

RECURSIVE InsertRow(_, _, _, _)
InsertRow(sorted, row, column, defsMap) ==
    IF sorted = <<>> THEN <<row>>
    ELSE IF compareDeviceIds(row[column][1], Head(sorted)[column][1], defsMap) < 0
        THEN <<row>> \o sorted
    ELSE <<Head(sorted)>> \o InsertRow(Tail(sorted), row, column, defsMap)

RECURSIVE SortRows(_, _, _)
\* displayRows.sort((a, b) => compareDeviceIds(a.pens[0], b.pens[0], penDefs)),
\* or the same on tablets[0] with tabletDefs.
SortRows(rows, column, defsMap) ==
    IF rows = <<>> THEN <<>>
    ELSE InsertRow(SortRows(SubSeq(rows, 1, Len(rows) - 1), column, defsMap),
                   rows[Len(rows)], column, defsMap)

\* The Map key -> Set of getRowsByPen / getRowsByTablet: its keys in insertion
\* order, and the Set of one key, filled row by row.
AggregateKeys(compatibilityRows, keyNode) ==
    SetAddAll(<<>>, Concat([i \in 1..Len(compatibilityRows) |->
                              extractItems(compatibilityRows[i][keyNode])]))

\* A plausible slip: the set of a key is replaced at each row that lists the
\* key, where it should grow.
AggregateSetOfLastRow(compatibilityRows, keyNode, valueNode, key) ==
    LET listing == {i \in 1..Len(compatibilityRows) :
                        key \in Range(extractItems(compatibilityRows[i][keyNode]))}
    IN  IF listing = {} THEN <<>>
        ELSE SetAddAll(<<>>, extractItems(
                compatibilityRows[CHOOSE i \in listing : \A k \in listing : k <= i][valueNode]))

AggregateSet(compatibilityRows, keyNode, valueNode, key) ==
    SetAddAll(<<>>, Concat([i \in 1..Len(compatibilityRows) |->
        IF key \in Range(extractItems(compatibilityRows[i][keyNode]))
        THEN extractItems(compatibilityRows[i][valueNode]) ELSE <<>>]))

\* A plausible slip: the rows are left in the order in which the pens were
\* first met.
getRowsByPenUnsorted(compatibilityRows, tabletDefs, penDefs) ==
    LET keys == AggregateKeys(compatibilityRows, "pen")
    IN  [k \in 1..Len(keys) |->
            [tablets |-> sortItems(AggregateSet(compatibilityRows, "pen",
                                                "tablet", keys[k]), tabletDefs),
             pens |-> <<keys[k]>>]]

getRowsByPen(compatibilityRows, tabletDefs, penDefs) ==
    LET keys == AggregateKeys(compatibilityRows, "pen")
    IN  SortRows([k \in 1..Len(keys) |->
                    [tablets |-> sortItems(AggregateSet(compatibilityRows, "pen",
                                                        "tablet", keys[k]), tabletDefs),
                     pens |-> <<keys[k]>>]],
                 "pens", penDefs)

getRowsByTablet(compatibilityRows, tabletDefs, penDefs) ==
    LET keys == AggregateKeys(compatibilityRows, "tablet")
    IN  SortRows([k \in 1..Len(keys) |->
                    [tablets |-> <<keys[k]>>,
                     pens |-> sortItems(AggregateSet(compatibilityRows, "tablet",
                                                     "pen", keys[k]), penDefs)]],
                 "tablets", tabletDefs)

getRowsGrouped(compatibilityRows, tabletDefs, penDefs) ==
    [i \in 1..Len(compatibilityRows) |->
        [tablets |-> sortItems(extractItems(compatibilityRows[i].tablet), tabletDefs),
         pens |-> sortItems(extractItems(compatibilityRows[i].pen), penDefs)]]

getRowsUngrouped(compatibilityRows, tabletDefs, penDefs) ==
    Concat([i \in 1..Len(compatibilityRows) |->
        LET tablets == sortItems(extractItems(compatibilityRows[i].tablet), tabletDefs)
            pens == sortItems(extractItems(compatibilityRows[i].pen), penDefs)
        IN  Concat([t \in 1..Len(tablets) |->
                [p \in 1..Len(pens) |-> [tablets |-> <<tablets[t]>>,
                                         pens |-> <<pens[p]>>]]])])

\* The switch on viewMode of renderCompatTable.
Project(viewMode, compatibilityRows, tabletDefs, penDefs) ==
    IF viewMode = "by-pen" THEN getRowsByPen(compatibilityRows, tabletDefs, penDefs)
    ELSE IF viewMode = "by-tablet"
        THEN getRowsByTablet(compatibilityRows, tabletDefs, penDefs)
    ELSE IF viewMode = "ungrouped"
        THEN getRowsUngrouped(compatibilityRows, tabletDefs, penDefs)
    ELSE getRowsGrouped(compatibilityRows, tabletDefs, penDefs)

----------------------------------------------------------------------------
(* The search filter.                                                      *)

\* The end of the match of "([^"]+)" at position i of input, 0 when there is
\* none: the position of the next quote, which must not be the very next
\* character.
QuotedEnd(input, i) ==
    IF i <= Len(input) /\ input[i] = "\""
       /\ \E j \in (i + 2)..Len(input) :
            input[j] = "\"" /\ \A k \in (i + 1)..(j - 1) : input[k] # "\""
    THEN CHOOSE j \in (i + 2)..Len(input) :
            input[j] = "\"" /\ \A k \in (i + 1)..(j - 1) : input[k] # "\""
    ELSE 0

\* The end of the match of (\S+) at position i of input: the last character
\* of the run of characters that are not white space.
WordEnd(input, i) == i + Len(TakeUntil(SubSeq(input, i, Len(input)), {" ", "\n"})) - 1

RECURSIVE ScanTokens(_, _)
\* The loop over regex.exec(input) of parseSearchTokens, from position i on.
ScanTokens(input, i) ==
    IF i > Len(input) THEN <<>>
    ELSE IF QuotedEnd(input, i) # 0
        THEN <<SubSeq(input, i + 1, QuotedEnd(input, i) - 1)>>
                \o ScanTokens(input, QuotedEnd(input, i) + 1)
    ELSE IF input[i] \notin {" ", "\n"}
        THEN <<SubSeq(input, i, WordEnd(input, i))>>
                \o ScanTokens(input, WordEnd(input, i) + 1)
    ELSE ScanTokens(input, i + 1)

parseSearchTokens(input) == IF input = <<>> THEN <<>> ELSE ScanTokens(input, 1)

\* The name the filter looks up for an item of a row, '' when there is none.
FilterName(item, tabletDefs, penDefs) ==
    IF item \in DOMAIN tabletDefs THEN tabletDefs[item].name
    ELSE IF item \in DOMAIN penDefs THEN penDefs[item].name
    ELSE <<>>

\* The predicate of displayRows.filter in renderCompatTable.
RowPassesFilter(row, searchRegexes, tabletDefs, penDefs) ==
    \/ Len(searchRegexes) = 0
    \/ \A r \in 1..Len(searchRegexes) :
        \E i \in 1..Len(row.tablets \o row.pens) :
            LET item == (row.tablets \o row.pens)[i]
                name == FilterName(item, tabletDefs, penDefs)
            IN  \/ RegExpTest(searchRegexes[r], item)
                \/ name # <<>> /\ RegExpTest(searchRegexes[r], name)

----------------------------------------------------------------------------
(* Formatting of a cell.                                                   *)

\* The label of one id: "Name (id)" or the raw id.
ItemLabel(item, defsMap, showNames) ==
    IF showNames /\ item \in DOMAIN defsMap /\ defsMap[item].name # <<>>
    THEN defsMap[item].name \o <<" ", "(">> \o item \o <<")">>
    ELSE item

\* items.map(item => `<span class="${className}">${label}</span>`)
Spans(items, className, defsMap, showNames) ==
    [i \in 1..Len(items) |->
        [class |-> className, label |-> ItemLabel(items[i], defsMap, showNames)]]

Other == <<"O", "t", "h", "e", "r">>

\* A plausible slip: the ids without a family are left out of a cell that
\* has family groups.
formatItemsWithoutOther(items, className, defsMap, showNames, onePerLine, organizeByFamily, familyDefs) ==
    LET separator == IF onePerLine THEN "<br>" ELSE ""
        FamilyOf(item) == IF item \in DOMAIN defsMap THEN defsMap[item].familyId
                          ELSE <<>>
        groupKeys == {FamilyOf(items[i]) : i \in 1..Len(items)} \ {<<>>}
        sortedFamilies == SortedArray(groupKeys)
        familyLabel(familyId) ==
            IF familyId \in DOMAIN familyDefs /\ familyDefs[familyId] # <<>>
            THEN familyDefs[familyId] ELSE familyId
        GroupItems(familyId) ==
            LET InFamily(item) == FamilyOf(item) = familyId
            IN  SelectSeq(items, InFamily)
        FamilyGroup(label, members) ==
            [label |-> label, spans |-> Spans(members, className, defsMap, showNames)]
    IN  IF organizeByFamily /\ Len(items) > 0 /\ groupKeys # {}
        THEN [separator |-> separator, spans |-> <<>>,
              groups |-> [f \in 1..Len(sortedFamilies) |->
                            FamilyGroup(familyLabel(sortedFamilies[f]),
                                        GroupItems(sortedFamilies[f]))]]
        ELSE [separator |-> separator,
              spans |-> Spans(items, className, defsMap, showNames),
              groups |-> <<>>]

\* The HTML of a cell, as its elements: either the spans, or the family-group
\* divs, each with its label and its spans; the spans of one list are joined
\* by the separator.
formatItems(items, className, defsMap, showNames, onePerLine, organizeByFamily, familyDefs) ==
    LET separator == IF onePerLine THEN "<br>" ELSE ""
        FamilyOf(item) == IF item \in DOMAIN defsMap THEN defsMap[item].familyId
                          ELSE <<>>
        groupKeys == {FamilyOf(items[i]) : i \in 1..Len(items)} \ {<<>>}
        IsUngrouped(item) == FamilyOf(item) = <<>>
        ungrouped == SelectSeq(items, IsUngrouped)
        sortedFamilies == SortedArray(groupKeys)
        familyLabel(familyId) ==
            IF familyId \in DOMAIN familyDefs /\ familyDefs[familyId] # <<>>
            THEN familyDefs[familyId] ELSE familyId
        GroupItems(familyId) ==
            LET InFamily(item) == FamilyOf(item) = familyId
            IN  SelectSeq(items, InFamily)
        FamilyGroup(label, members) ==
            [label |-> label, spans |-> Spans(members, className, defsMap, showNames)]
    IN  IF organizeByFamily /\ Len(items) > 0 /\ groupKeys # {}
        THEN [separator |-> separator, spans |-> <<>>,
              groups |-> [f \in 1..Len(sortedFamilies) |->
                            FamilyGroup(familyLabel(sortedFamilies[f]),
                                        GroupItems(sortedFamilies[f]))]
                         \o (IF Len(ungrouped) > 0
                             THEN <<FamilyGroup(Other, ungrouped)>> ELSE <<>>)]
        ELSE [separator |-> separator,
              spans |-> Spans(items, className, defsMap, showNames),
              groups |-> <<>>]

----------------------------------------------------------------------------
(* renderCompatTable.                                                      *)

\* What the loader that keeps the compatrow elements returns: the elements
\* and the two definition tables.
fetchAndParseXMLElements(doc) ==
    [rows |-> doc.compatrows,
     tabletDefs |-> ParseDefs(doc.tabletdefs),
     penDefs |-> ParseDefs(doc.pendefs)]

\* One call of renderCompatTable on the data of xmlDoc, the state of the
\* controls being the parameters.
Render(viewMode, search, showIdsOnly, onePerLineChecked, organizeByFamilyChecked) ==
    /\ xmlDoc # NoData
    /\ \E data \in {fetchAndParseXMLElements(xmlDoc)},
          tabletFamilyDefs \in {ParseFamilyDefs(xmlDoc.tabletfamilydefs)},
          penFamilyDefs \in {ParseFamilyDefs(xmlDoc.penfamilydefs)},
          searchTerms \in {parseSearchTokens(Trim(search))} :
        \E projected \in {Project(viewMode, data.rows, data.tabletDefs, data.penDefs)},
           searchRegexes \in {[i \in 1..Len(searchTerms) |->
                                createGlobRegex(searchTerms[i])]} :
        LET Passes(row) == RowPassesFilter(row, searchRegexes, data.tabletDefs,
                                           data.penDefs)
        IN
        \E filteredRows \in {SelectSeq(projected, Passes)} :
        LET compatibilityRows == data.rows
            showNames == ~showIdsOnly
            visibleTablets ==
                UNION {Range(filteredRows[i].tablets) : i \in 1..Len(filteredRows)}
            visiblePens ==
                UNION {Range(filteredRows[i].pens) : i \in 1..Len(filteredRows)}
            totalUniqueTablets ==
                UNION {Range(extractItems(compatibilityRows[i].tablet)) :
                        i \in 1..Len(compatibilityRows)}
            totalUniquePens ==
                UNION {Range(extractItems(compatibilityRows[i].pen)) :
                        i \in 1..Len(compatibilityRows)}
            tabletCell(row) ==
                formatItems(row.tablets, "device-tag tablet", data.tabletDefs,
                            showNames, onePerLineChecked, organizeByFamilyChecked,
                            tabletFamilyDefs)
            penCell(row) ==
                formatItems(row.pens, "device-tag", data.penDefs, showNames,
                            onePerLineChecked, organizeByFamilyChecked,
                            penFamilyDefs)
        IN  /\ ui' = [showIdsOnly |-> showIdsOnly, onePerLine |-> onePerLineChecked,
                      organizeByFamily |-> organizeByFamilyChecked,
                      viewMode |-> viewMode, search |-> search]
            /\ displayRows' = projected
            /\ statsBar' = [rows |-> Len(filteredRows),
                            visibleTablets |-> Cardinality(visibleTablets),
                            totalTablets |-> Cardinality(totalUniqueTablets),
                            visiblePens |-> Cardinality(visiblePens),
                            totalPens |-> Cardinality(totalUniquePens)]
            /\ headerRow' = IF viewMode = "by-pen" THEN <<"#", "Pens", "Tablets">>
                            ELSE <<"#", "Tablets", "Pens">>
            /\ tableBody' = [i \in 1..Len(filteredRows) |->
                                [number |-> i, copyIndex |-> i - 1,
                                 cells |-> IF viewMode = "by-pen"
                                           THEN <<penCell(filteredRows[i]),
                                                  tabletCell(filteredRows[i])>>
                                           ELSE <<tabletCell(filteredRows[i]),
                                                  penCell(filteredRows[i])>>]]
            /\ currentTableData' = [rows |-> filteredRows, viewMode |-> viewMode,
                                    tabletDefs |-> data.tabletDefs,
                                    penDefs |-> data.penDefs,
                                    showNames |-> showNames,
                                    onePerLine |-> onePerLineChecked]
            /\ UNCHANGED <<loaderVars, callVars, clipboard>>

----------------------------------------------------------------------------
(* Rendering: the documents, the states of the controls.                   *)

ViewModes == {"grouped", "ungrouped", "by-pen", "by-tablet"}

\* The contents of the search box: empty, blank, a name, a name and an id,
\* a quoted id, a glob in the other case.
SearchInputs ==
    {<<>>, <<" ", " ">>, <<"a">>, <<"a", " ", "T", "3">>,
     <<"\"", "T", "1", "\"">>, <<"t", "?">>}

\* Rows that list up to MaxTokens tablets, repeats included, beside one pen.
RenderRows ==
    {CompatRow(tablet, NodeText(<<P1>>, "line"), NoNode, NoNode) :
        tablet \in Nodes(SeqsUpTo({T1, T3}, MaxTokens) \ {<<>>}, "line")}

RenderDocs ==
    {Catalogue(1, <<row>>) : row \in RenderRows}
    \cup {Catalogue(1, <<>>),
          \* a row that names a tablet family
          Catalogue(1, <<CompatRow(NodeText(<<T3>>, "line"), NodeText(<<P1>>, "line"),
                                   NodeText(<<F1>>, "line"), NoNode)>>),
          \* a row whose pen node holds the id of a tablet
          Catalogue(1, <<CompatRow(NodeText(<<T3>>, "line"), NodeText(<<T1>>, "line"),
                                   NoNode, NoNode)>>),
          \* two rows that share a pen and a tablet
          Catalogue(1, <<CompatRow(NodeText(<<T3, T1>>, "lines"),
                                   NodeText(<<P2, P1>>, "lines"), NoNode, NoNode),
                         CompatRow(NodeText(<<T2, T1>>, "line"),
                                   NodeText(<<P1>>, "line"), NoNode, NoNode)>>),
          \* tablets of two families and of none in one row
          Catalogue(2, <<CompatRow(NodeText(<<T3, T1, T2>>, "line"),
                                   NodeText(<<P1>>, "line"), NoNode, NoNode)>>),
          \* ids without a definition, a definition without a name
          Catalogue(2, <<CompatRow(NodeText(<<T2, T0, T1>>, "line"),
                                   NodeText(<<P0, P2, P1>>, "line"), NoNode, NoNode)>>)}

RenderInit ==
    /\ xmlDoc \in RenderDocs
    /\ dataList = <<>> /\ heap = <<>> /\ mergedData = NoData
    /\ console = <<>> /\ thrown = NoError
    /\ RenderIdle /\ CallIdle

\* The states of the controls that differ from the current one in at most one
\* control: the user changes the controls one at a time.
ControlStates(current) ==
    {c \in [showIdsOnly : BOOLEAN, onePerLine : BOOLEAN, organizeByFamily : BOOLEAN,
            viewMode : ViewModes, search : SearchInputs] :
        Cardinality({f \in DOMAIN c : c[f] # current[f]}) <= 1}

\* A control changes, or none does, and the table is rendered.
RenderNext ==
    \E c \in ControlStates(ui) :
        Render(c.viewMode, c.search, c.showIdsOnly, c.onePerLine, c.organizeByFamily)

SpecRender == RenderInit /\ [][RenderNext]_vars

\* The last call of renderCompatTable has been made with this view mode.
Rendered(viewMode) ==
    currentTableData # NoData /\ currentTableData.viewMode = viewMode

\* C1: in the by-tablet view, the tablet ids that are the key of a display
\* row are exactly the tablet ids of the effective rows of the dataset, a
\* row's effective tablets being its direct ids and the members of every
\* tablet family it references.
C1_ByTabletKeysAreEffectiveTablets ==
    Rendered("by-tablet") =>
        {displayRows[i].tablets[1] : i \in 1..Len(displayRows)}
            = UNION {EffectiveTablets(xmlDoc, xmlDoc.compatrows[i]) :
                        i \in 1..Len(xmlDoc.compatrows)}

RECURSIVE Sum(_)
Sum(numbers) == IF numbers = <<>> THEN 0 ELSE Head(numbers) + Sum(Tail(numbers))

\* C2: the ungrouped view has as many rows as the sum, over the rows of the
\* dataset, of the number of distinct tablets of the row times the number of
\* its distinct pens, and each of its rows has one tablet and one pen.
C2_UngroupedRowCount ==
    Rendered("ungrouped") =>
        /\ Len(displayRows)
            = Sum([i \in 1..Len(xmlDoc.compatrows) |->
                    Cardinality(EffectiveTablets(xmlDoc, xmlDoc.compatrows[i]))
                    * Cardinality(EffectivePens(xmlDoc, xmlDoc.compatrows[i]))])
        /\ \A i \in 1..Len(displayRows) :
            Len(displayRows[i].tablets) = 1 /\ Len(displayRows[i].pens) = 1

\* Whether the pattern of a token matches the id, or the name of the
\* definition that the table of the id's own kind holds for it.
TokenMatchesDevice(token, id, defsOfKind) ==
    \/ RegExpTest(createGlobRegex(token), id)
    \/ id \in DOMAIN defsOfKind
        /\ RegExpTest(createGlobRegex(token), defsOfKind[id].name)

\* C5: the rows shown are the display rows in which, for every token of the
\* query, some tablet matches by its id or by its name in the tablet
\* definitions, or some pen matches by its id or by its name in the pen
\* definitions; a query without tokens keeps every row.
C5_FilterByOwnKindName ==
    currentTableData # NoData =>
        LET tokens == parseSearchTokens(Trim(ui.search))
            PassesAsStated(row) ==
                \A t \in 1..Len(tokens) :
                    \/ \E i \in 1..Len(row.tablets) :
                        TokenMatchesDevice(tokens[t], row.tablets[i],
                                           currentTableData.tabletDefs)
                    \/ \E i \in 1..Len(row.pens) :
                        TokenMatchesDevice(tokens[t], row.pens[i],
                                           currentTableData.penDefs)
        IN  currentTableData.rows = SelectSeq(displayRows, PassesAsStated)

----------------------------------------------------------------------------
(* Loads that fail.                                                        *)

\* Documents to load one after another: every catalogue with no row, one row
\* and two rows, and the two responses that make a load fail.
ReloadRowLists ==
    {<<>>,
     <<CompatRow(NodeText(<<T1>>, "line"), NodeText(<<P1>>, "line"), NoNode, NoNode)>>,
     <<CompatRow(NodeText(<<T3, T0>>, "lines"), NodeText(<<P0>>, "line"),
                 NodeText(<<F1>>, "line"), NoNode)>>,
     <<CompatRow(NodeText(<<T1>>, "line"), NodeText(<<P1>>, "line"), NoNode, NoNode),
       CompatRow(NodeText(<<T3>>, "line"), NodeText(<<P2>>, "line"), NoNode,
                 NodeText(<<G1>>, "line"))>>}

ReloadDocs ==
    {Catalogue(c, rows) : c \in {1, 2, 3}, rows \in ReloadRowLists}
    \cup BrokenDocuments

ReloadInit == LoaderIdle /\ RenderIdle /\ CallIdle

ReloadNext == \E doc \in ReloadDocs : Load(doc)

SpecReload == ReloadInit /\ [][ReloadNext]_vars

\* C11: a load of a response that is not ok, or of a document that is not
\* well-formed, throws and delivers nothing: the datasets delivered before,
\* their objects and the diagnostics are as they were. Every other load
\* throws nothing and delivers one more dataset, with a row for every
\* compatrow, so a load that fails differs from a load of a document without
\* rows.
C11_FailedLoadDeliversNothing ==
    [][IF xmlDoc'.httpOk /\ xmlDoc'.wellFormed
       THEN /\ thrown' = NoError
            /\ Len(dataList') = Len(dataList) + 1
            /\ SubSeq(dataList', 1, Len(dataList)) = dataList
            /\ Len(dataList'[Len(dataList')].rows) = Len(xmlDoc'.compatrows)
       ELSE /\ thrown' # NoError
            /\ UNCHANGED <<dataList, heap, console, mergedData>>]_vars

\* A load failed on a document that is not well-formed after a dataset with
\* a row had been delivered, and the dataset is still there.
C11_Witness ==
    /\ xmlDoc # NoData /\ ~xmlDoc.wellFormed
    /\ thrown = "XML parsing failed"
    /\ Len(dataList) = 1 /\ Len(dataList[1].rows) = 1
    /\ heap[dataList[1].rows[1]].tablets = <<T1>>

----------------------------------------------------------------------------
(* Validation diagnostics.                                                 *)

\* The ids listed by the console.warn calls of one kind.
ReportedIds(kind) ==
    UNION {Range(w.ids) : w \in {v \in Range(console) : v.warn = kind}}

\* The pen ids of the "referenced by" lines.
ReportedMissingPens ==
    {w.id : w \in {v \in Range(console) : v.warn = "missing-pen"}}

UsedTablets(doc) ==
    UNION {EffectiveTablets(doc, doc.compatrows[i]) : i \in 1..Len(doc.compatrows)}

UsedPens(doc) ==
    UNION {EffectivePens(doc, doc.compatrows[i]) : i \in 1..Len(doc.compatrows)}

DefinedIds(defElems) == {defElems[i].id : i \in 1..Len(defElems)}

----------------------------------------------------------------------------
(* copyRowToClipboard.                                                     *)

RECURSIVE Join(_, _)
\* array.join(separator)
Join(strings, separator) ==
    IF strings = <<>> THEN <<>>
    ELSE IF Len(strings) = 1 THEN strings[1]
    ELSE strings[1] \o separator \o Join(Tail(strings), separator)

\* A plausible slip: the name is put before the id whenever the id has a
\* definition, its name being empty or not.
TextLabelOfAnyDefinition(item, defsMap, showNames) ==
    IF showNames /\ item \in DOMAIN defsMap
    THEN defsMap[item].name \o <<" ", "(">> \o item \o <<")">>
    ELSE item

\* The label formatItemsText gives one id.
TextLabel(item, defsMap, showNames) ==
    IF showNames /\ item \in DOMAIN defsMap /\ defsMap[item].name # <<>>
    THEN defsMap[item].name \o <<" ", "(">> \o item \o <<")">>
    ELSE item

formatItemsText(items, defsMap, showNames, onePerLine) ==
    Join([i \in 1..Len(items) |-> TextLabel(items[i], defsMap, showNames)],
         IF onePerLine THEN <<"\n">> ELSE <<",", " ">>)

TabletsTitle == <<"T", "a", "b", "l", "e", "t", "s", ":">>
PensTitle == <<"P", "e", "n", "s", ":">>

\* textToCopy for a row of window.currentTableData.
TextToCopy(row, table) ==
    LET tablets == formatItemsText(row.tablets, table.tabletDefs, table.showNames,
                                   table.onePerLine)
        pens == formatItemsText(row.pens, table.penDefs, table.showNames,
                                table.onePerLine)
    IN  IF table.viewMode = "by-pen"
        THEN PensTitle \o <<"\n">> \o pens \o <<"\n", "\n">>
                \o TabletsTitle \o <<"\n">> \o tablets
        ELSE TabletsTitle \o <<"\n">> \o tablets \o <<"\n", "\n">>
                \o PensTitle \o <<"\n">> \o pens

\* copyRowToClipboard reading the row at the index from the rows of the view
\* before the search filter, not from the rows that are displayed.
copyRowToClipboardOfView(index, permitted) ==
    /\ callArgs' = [fn |-> "copyRowToClipboard", index |-> index]
    /\ IF currentTableData = NoData
       THEN /\ callResult' = [outcome |-> "TypeError"]
            /\ UNCHANGED clipboard
       ELSE IF index + 1 \notin 1..Len(displayRows)
       THEN /\ callResult' = [outcome |-> "returned"]
            /\ UNCHANGED clipboard
       ELSE IF permitted
       THEN /\ clipboard' = TextToCopy(displayRows[index + 1], currentTableData)
            /\ callResult' = [outcome |-> "Copied to clipboard"]
       ELSE /\ callResult' = [outcome |-> "Failed to copy: "]
            /\ UNCHANGED clipboard
    /\ UNCHANGED <<loaderVars, ui, displayRows, tableBody, statsBar, headerRow,
                   currentTableData>>

\* One call of copyRowToClipboard(index). Before the first render
\* window.currentTableData is undefined and the destructuring throws; an index
\* without a row returns at once; otherwise the text is written, unless the
\* browser refuses the write. The outcome is what the call logs.
copyRowToClipboard(index, permitted) ==
    /\ callArgs' = [fn |-> "copyRowToClipboard", index |-> index]
    /\ IF currentTableData = NoData
       THEN /\ callResult' = [outcome |-> "TypeError"]
            /\ UNCHANGED clipboard
       ELSE IF index + 1 \notin 1..Len(currentTableData.rows)
       THEN /\ callResult' = [outcome |-> "returned"]
            /\ UNCHANGED clipboard
       ELSE IF permitted
       THEN /\ clipboard' = TextToCopy(currentTableData.rows[index + 1],
                                       currentTableData)
            /\ callResult' = [outcome |-> "Copied to clipboard"]
       ELSE /\ callResult' = [outcome |-> "Failed to copy: "]
            /\ UNCHANGED clipboard
    /\ UNCHANGED <<loaderVars, ui, displayRows, tableBody, statsBar, headerRow,
                   currentTableData>>

\* The indices the copy buttons and other callers pass: from -1 up.
MaxCopyIndex == 1

\* A document with ids without a definition and a definition without a name;
\* its views have one, three and six rows.
CopyDocs ==
    {Catalogue(2, <<CompatRow(NodeText(<<T2, T0, T1>>, "line"),
                              NodeText(<<P0, P1>>, "line"), NoNode, NoNode)>>)}

\* The search box is empty or holds the quoted id of one tablet.
CopySearchInputs == {<<>>, <<"\"", "T", "1", "\"">>}

CopyInit ==
    /\ xmlDoc \in CopyDocs
    /\ dataList = <<>> /\ heap = <<>> /\ mergedData = NoData
    /\ console = <<>> /\ thrown = NoError
    /\ RenderIdle /\ CallIdle

\* A control changes and the table is rendered, or a row is copied.
CopyNext ==
    \/ \E c \in {x \in ControlStates(ui) : x.search \in CopySearchInputs} :
        Render(c.viewMode, c.search, c.showIdsOnly, c.onePerLine, c.organizeByFamily)
    \/ \E index \in (-1)..MaxCopyIndex, permitted \in BOOLEAN :
        copyRowToClipboard(index, permitted)

SpecCopy == CopyInit /\ [][CopyNext]_vars

----------------------------------------------------------------------------
(* The label of a device id.                                               *)

\* The label the rule gives an id: "Name (id)" when names are shown and the
\* id has a definition with a name that is not empty, the raw id otherwise.
LabelByRule(id, defsMap, showNames) ==
    IF showNames /\ id \in DOMAIN defsMap /\ defsMap[id].name # <<>>
    THEN defsMap[id].name \o <<" ", "(">> \o id \o <<")">>
    ELSE id

\* The labels of all spans of a cell, those of its family groups included.
CellLabels(cell) ==
    [i \in 1..Len(cell.spans) |-> cell.spans[i].label]
    \o Concat([g \in 1..Len(cell.groups) |->
                [i \in 1..Len(cell.groups[g].spans) |-> cell.groups[g].spans[i].label]])

\* Two sequences hold the same elements, each as many times.
SameBag(s, t) ==
    /\ Len(s) = Len(t)
    /\ \A v \in Range(s) \cup Range(t) :
        Cardinality({i \in 1..Len(s) : s[i] = v})
            = Cardinality({i \in 1..Len(t) : t[i] = v})

\* The cell of a table row that shows the tablets, and the one for the pens.
TabletCellOf(tr) == IF currentTableData.viewMode = "by-pen" THEN tr.cells[2] ELSE tr.cells[1]
PenCellOf(tr) == IF currentTableData.viewMode = "by-pen" THEN tr.cells[1] ELSE tr.cells[2]

\* The labels of a cell are those the rule gives the ids, in the order of the
\* ids when the cell is flat.
CellFollowsRule(cell, ids, defsMap) ==
    LET expected == [i \in 1..Len(ids) |->
                        LabelByRule(ids[i], defsMap, currentTableData.showNames)]
    IN  /\ SameBag(CellLabels(cell), expected)
        /\ cell.groups = <<>> => CellLabels(cell) = expected

\* The text the rule gives a row.
TextByRule(row, table) ==
    LET separator == IF table.onePerLine THEN <<"\n">> ELSE <<",", " ">>
        tablets == Join([i \in 1..Len(row.tablets) |->
                            LabelByRule(row.tablets[i], table.tabletDefs,
                                        table.showNames)], separator)
        pens == Join([i \in 1..Len(row.pens) |->
                        LabelByRule(row.pens[i], table.penDefs, table.showNames)],
                     separator)
    IN  IF table.viewMode = "by-pen"
        THEN PensTitle \o <<"\n">> \o pens \o <<"\n", "\n">>
                \o TabletsTitle \o <<"\n">> \o tablets
        ELSE TabletsTitle \o <<"\n">> \o tablets \o <<"\n", "\n">>
                \o PensTitle \o <<"\n">> \o pens

\* Every cell of the table body follows the rule.
TableFollowsRule ==
    currentTableData # NoData =>
        \A i \in 1..Len(tableBody) :
            /\ CellFollowsRule(TabletCellOf(tableBody[i]), currentTableData.rows[i].tablets,
                               currentTableData.tabletDefs)
            /\ CellFollowsRule(PenCellOf(tableBody[i]), currentTableData.rows[i].pens,
                               currentTableData.penDefs)

\* A step that leaves the controls and the table data as they are and ends
\* with the text written is a copy of the row at the index passed, labelled
\* by the rule.
CopyFollowsRule ==
    /\ UNCHANGED <<ui, currentTableData>>
    /\ <<clipboard, callArgs, callResult>>' # <<clipboard, callArgs, callResult>>
    /\ callResult' = [outcome |-> "Copied to clipboard"]
    =>
        clipboard' = TextByRule(currentTableData.rows[callArgs'.index + 1],
                                currentTableData)

\* C13: an id is shown as "Name (id)" exactly when names are shown and the id
\* has a definition with a name that is not empty, and as the raw id
\* otherwise: in the spans of a flat cell, in the spans of every family
\* group and of the group "Other", and in the text copied to the clipboard.
C13_LabelRule == []TableFollowsRule /\ [][CopyFollowsRule]_vars

\* The table shows a row in family groups with names: T1 as "a (T1)" in its
\* family group, T2 (a definition without a name) and T0 (no definition) as
\* raw ids under "Other"; and the same row has been copied as text.
C13_Witness ==
    /\ currentTableData # NoData /\ currentTableData.showNames
    /\ ui.organizeByFamily /\ currentTableData.viewMode = "grouped"
    /\ Len(tableBody) = 1
    /\ Len(tableBody[1].cells[1].groups) = 2
    /\ tableBody[1].cells[1].groups[1].spans
        = <<[class |-> "device-tag tablet", label |-> <<"a", " ", "(", "T", "1", ")">>]>>
    /\ tableBody[1].cells[1].groups[2].label = Other
    /\ [i \in 1..2 |-> tableBody[1].cells[1].groups[2].spans[i].label] = <<T0, T2>>
    /\ clipboard = TabletsTitle \o <<"\n">>
                    \o T0 \o <<",", " ">> \o T2 \o <<",", " ">>
                    \o <<"a", " ", "(", "T", "1", ")">> \o <<"\n", "\n">>
                    \o PensTitle \o <<"\n">> \o P0 \o <<",", " ">>
                    \o <<"a", " ", "(", "P", "1", ")">>

----------------------------------------------------------------------------
(* parseSearchTokens on its own.                                           *)

MaxQueryLen == 5

\* Every query of up to MaxQueryLen characters over a letter, the space and
\* the double quote.
Queries == SeqsUpTo({"a", " ", "\""}, MaxQueryLen)

TokensInit ==
    /\ callArgs \in {[fn |-> "parseSearchTokens", input |-> input] : input \in Queries}
    /\ callResult = NoResult
    /\ LoaderIdle /\ RenderIdle

CallTokens ==
    /\ callArgs # NoData
    /\ callArgs.fn = "parseSearchTokens"
    /\ callResult = NoResult
    /\ callResult' = [tokens |-> parseSearchTokens(callArgs.input)]
    /\ UNCHANGED <<loaderVars, renderVars, callArgs>>

TokensNext == CallTokens

SpecTokens == TokensInit /\ [][TokensNext]_vars

\* C14: the tokens of a query without quotes are its pieces between white
\* space; a query that is one quoted span gives the content of the span as
\* its only token, white space included; and for every query, whatever its
\* quotes, no token is empty and no token holds a double quote.
C14_TokensHoldNoQuote ==
    callArgs # NoData /\ callArgs.fn = "parseSearchTokens" /\ callResult # NoResult =>
        LET input == callArgs.input
            tokens == callResult.tokens
            content == SubSeq(input, 2, Len(input) - 1)
        IN  /\ "\"" \notin Range(input)
                => tokens = FilterNonEmpty(SplitSpaces(Trim(input)))
            /\ (/\ Len(input) >= 3
                /\ input[1] = "\"" /\ input[Len(input)] = "\""
                /\ "\"" \notin Range(content))
                => tokens = <<content>>
            /\ \A t \in 1..Len(tokens) :
                tokens[t] # <<>> /\ "\"" \notin Range(tokens[t])

----------------------------------------------------------------------------
(* The aggregated views.                                                   *)

\* The sequence is in strictly ascending order under compareDeviceIds.
StrictlyAscending(ids, defsMap) ==
    \A i, j \in 1..Len(ids) : i < j => compareDeviceIds(ids[i], ids[j], defsMap) < 0

\* The rows are those of the view keyed on the ids of keyNode: one row per
\* id that a row of the document lists there, holding that id alone, and
\* beside it, sorted and each once, the ids which the rows that list it
\* list in valueNode; the rows in strictly ascending order of their key.
AggregatedBy(rows, keyNode, valueNode, keyColumn, valueColumn, keyDefs, valueDefs) ==
    LET keys == UNION {TokensOf(xmlDoc.compatrows[r][keyNode]) :
                        r \in 1..Len(xmlDoc.compatrows)}
        ValuesOf(key) ==
            UNION {TokensOf(xmlDoc.compatrows[r][valueNode]) :
                    r \in {q \in 1..Len(xmlDoc.compatrows) :
                            key \in TokensOf(xmlDoc.compatrows[q][keyNode])}}
    IN  /\ \A i \in 1..Len(rows) : Len(rows[i][keyColumn]) = 1
        /\ {rows[i][keyColumn][1] : i \in 1..Len(rows)} = keys
        /\ Len(rows) = Cardinality(keys)
        /\ \A i \in 1..Len(rows) :
            /\ Range(rows[i][valueColumn]) = ValuesOf(rows[i][keyColumn][1])
            /\ StrictlyAscending(rows[i][valueColumn], valueDefs)
        /\ StrictlyAscending([i \in 1..Len(rows) |-> rows[i][keyColumn][1]], keyDefs)

\* C15: the by-pen view has one row for every pen id that a row lists, with
\* that pen alone and the sorted, duplicate-free union of the tablets of the
\* rows that list it, the rows in strictly ascending order of the pen under
\* compareDeviceIds with the pen definitions; the by-tablet view is the
\* mirror image.
C15_AggregatedViews ==
    /\ Rendered("by-pen") =>
        AggregatedBy(displayRows, "pen", "tablet", "pens", "tablets",
                     currentTableData.penDefs, currentTableData.tabletDefs)
    /\ Rendered("by-tablet") =>
        AggregatedBy(displayRows, "tablet", "pen", "tablets", "pens",
                     currentTableData.tabletDefs, currentTableData.penDefs)

\* Two rows that share pen P1 and tablet T1 are shown by pen: P1 with the
\* tablets of both rows, P2 after it although the document lists it first.
C15_Witness ==
    /\ Rendered("by-pen")
    /\ Len(xmlDoc.compatrows) = 2
    /\ extractItems(xmlDoc.compatrows[1].pen) = <<P2, P1>>
    /\ displayRows = <<[tablets |-> <<T3, T1, T2>>, pens |-> <<P1>>],
                       [tablets |-> <<T3, T1>>, pens |-> <<P2>>]>>

----------------------------------------------------------------------------
(* Family groups.                                                          *)

\* The family id of a device id: that of its definition, '' without one.
FamilyIdOf(id, defsMap) == IF id \in DOMAIN defsMap THEN defsMap[id].familyId ELSE <<>>

\* The name a family definition of the document gives the family, the raw
\* family id when there is none.
FamilyLabelByRule(familyId, familyDefElems) ==
    IF \E i \in 1..Len(familyDefElems) :
            familyDefElems[i].id = familyId /\ familyDefElems[i].name # <<>>
    THEN (CHOOSE e \in Range(familyDefElems) : e.id = familyId /\ e.name # <<>>).name
    ELSE familyId

\* The labels of the spans of one group.
GroupLabels(group) == [i \in 1..Len(group.spans) |-> group.spans[i].label]

\* The groups are the buckets of the ids: one per family id, in ascending
\* order of the family id, labelled with the family's name or the raw family
\* id and holding the ids of that family; then, when withOther, a group
\* "Other" that holds the ids without a family.
GroupsAreBuckets(groups, ids, defsMap, familyDefElems, withOther) ==
    LET families == {FamilyIdOf(ids[i], defsMap) : i \in 1..Len(ids)} \ {<<>>}
        n == Cardinality(families)
        ordered == CHOOSE f \in [1..n -> families] :
                        \A i, j \in 1..n : i < j => StrLess(f[i], f[j])
        InFamily(familyId) ==
            LET Member(id) == FamilyIdOf(id, defsMap) = familyId
            IN  SelectSeq(ids, Member)
        Labels(members) ==
            [i \in 1..Len(members) |->
                LabelByRule(members[i], defsMap, currentTableData.showNames)]
    IN  /\ Len(groups) = n + (IF withOther THEN 1 ELSE 0)
        /\ \A g \in 1..n :
            /\ groups[g].label = FamilyLabelByRule(ordered[g], familyDefElems)
            /\ GroupLabels(groups[g]) = Labels(InFamily(ordered[g]))
        /\ withOther =>
            /\ groups[n + 1].label = Other
            /\ GroupLabels(groups[n + 1]) = Labels(InFamily(<<>>))

\* Some id of the list has no family.
SomeWithoutFamily(ids, defsMap) ==
    \E i \in 1..Len(ids) : FamilyIdOf(ids[i], defsMap) = <<>>

SomeWithFamily(ids, defsMap) ==
    \E i \in 1..Len(ids) : FamilyIdOf(ids[i], defsMap) # <<>>

\* The cell as the claim has it: buckets for every list that is not empty,
\* "Other" among them whenever some id has no family.
CellInBucketsAsStated(cell, ids, defsMap, familyDefElems) ==
    ids # <<>> =>
        /\ cell.spans = <<>>
        /\ GroupsAreBuckets(cell.groups, ids, defsMap, familyDefElems,
                            SomeWithoutFamily(ids, defsMap))

\* The cell as the code has it: buckets when some id has a family, "Other"
\* among them when some id has none; and no bucket at all, the flat list of
\* spans, when no id has a family.
CellInBucketsOrFlat(cell, ids, defsMap, familyDefElems) ==
    ids # <<>> =>
        IF SomeWithFamily(ids, defsMap)
        THEN /\ cell.spans = <<>>
             /\ GroupsAreBuckets(cell.groups, ids, defsMap, familyDefElems,
                                 SomeWithoutFamily(ids, defsMap))
        ELSE /\ cell.groups = <<>>
             /\ CellLabels(cell)
                    = [i \in 1..Len(ids) |->
                        LabelByRule(ids[i], defsMap, currentTableData.showNames)]

\* C16 as stated: with organize-by-family on, every list of ids that is not
\* empty is shown in buckets, each id once: a bucket per family id in
\* ascending order, labelled with the family's name or the raw family id,
\* and a bucket "Other" whenever some id has no definition or no family id.
C16_BucketsAsStated ==
    currentTableData # NoData /\ ui.organizeByFamily =>
        \A i \in 1..Len(tableBody) :
            /\ CellInBucketsAsStated(TabletCellOf(tableBody[i]),
                                     currentTableData.rows[i].tablets,
                                     currentTableData.tabletDefs, xmlDoc.tabletfamilydefs)
            /\ CellInBucketsAsStated(PenCellOf(tableBody[i]),
                                     currentTableData.rows[i].pens,
                                     currentTableData.penDefs, xmlDoc.penfamilydefs)

\* C16 amended: the same, for the lists in which some id has a family; a
\* list in which no id has a family is shown flat, without any bucket.
C16_BucketsOrFlat ==
    currentTableData # NoData /\ ui.organizeByFamily =>
        \A i \in 1..Len(tableBody) :
            /\ CellInBucketsOrFlat(TabletCellOf(tableBody[i]),
                                   currentTableData.rows[i].tablets,
                                   currentTableData.tabletDefs, xmlDoc.tabletfamilydefs)
            /\ CellInBucketsOrFlat(PenCellOf(tableBody[i]),
                                   currentTableData.rows[i].pens,
                                   currentTableData.penDefs, xmlDoc.penfamilydefs)

\* With organize-by-family on, a row shows tablets of families F1 and F2 and
\* one without a family in three buckets: F1 under its raw id, F2 under its
\* name "x", then "Other".
C16_Witness ==
    /\ currentTableData # NoData /\ ui.organizeByFamily
    /\ currentTableData.viewMode = "grouped" /\ ~currentTableData.showNames
    /\ Len(tableBody) = 1
    /\ currentTableData.rows[1].tablets = <<T2, T1, T3>>
    /\ [g \in 1..3 |-> tableBody[1].cells[1].groups[g].label] = <<F1, <<"x">>, Other>>
    /\ [g \in 1..3 |-> GroupLabels(tableBody[1].cells[1].groups[g])]
        = <<<<T1>>, <<T3>>, <<T2>>>>

----------------------------------------------------------------------------
(* The latest render is the one displayed and the one copied from.         *)

\* The rows the table data holds are the rows of the view of the latest
\* controls that pass the filter of the latest search box, in the order of
\* the view.
AreLatestFilteredRows(rows) ==
    \A tabletDefs \in {ParseDefs(xmlDoc.tabletdefs)}, penDefs \in {ParseDefs(xmlDoc.pendefs)},
       searchTerms \in {parseSearchTokens(Trim(ui.search))} :
        \A view \in {Project(ui.viewMode, xmlDoc.compatrows, tabletDefs, penDefs)},
           searchRegexes \in {[i \in 1..Len(searchTerms) |->
                                createGlobRegex(searchTerms[i])]} :
            LET Passes(row) == RowPassesFilter(row, searchRegexes, tabletDefs, penDefs)
            IN  rows = SelectSeq(view, Passes)

\* The table body and window.currentTableData hold the rows of the latest
\* render: the data those rows with the view mode and the options of the
\* latest controls; the body one table row for each, numbered from 1, its
\* copy button bound to the index from 0, its cells showing the ids of that
\* row.
TableIsLatestRender ==
    currentTableData # NoData =>
        /\ AreLatestFilteredRows(currentTableData.rows)
        /\ currentTableData.viewMode = ui.viewMode
        /\ currentTableData.showNames = ~ui.showIdsOnly
        /\ currentTableData.onePerLine = ui.onePerLine
        /\ Len(tableBody) = Len(currentTableData.rows)
        /\ \A i \in 1..Len(tableBody) :
            /\ tableBody[i].number = i
            /\ tableBody[i].copyIndex = i - 1
            /\ CellFollowsRule(TabletCellOf(tableBody[i]),
                               currentTableData.rows[i].tablets,
                               currentTableData.tabletDefs)
            /\ CellFollowsRule(PenCellOf(tableBody[i]), currentTableData.rows[i].pens,
                               currentTableData.penDefs)

\* A call of copyRowToClipboard after a render: with the index of a displayed
\* row it formats that row, and the text written, if the write succeeds, is
\* the text of that row in the view mode and with the options of the latest
\* render; with any other index it returns and the clipboard stays as it is.
CopyIsOfDisplayedRow ==
    /\ currentTableData # NoData
    /\ UNCHANGED <<ui, currentTableData>>
    /\ <<clipboard, callArgs, callResult>>' # <<clipboard, callArgs, callResult>>
    =>
        IF \E i \in 1..Len(tableBody) : tableBody[i].copyIndex = callArgs'.index
        THEN \/ /\ callResult' = [outcome |-> "Copied to clipboard"]
                /\ clipboard' = TextByRule(currentTableData.rows[callArgs'.index + 1],
                                           [currentTableData EXCEPT
                                                !.viewMode = ui.viewMode,
                                                !.showNames = ~ui.showIdsOnly,
                                                !.onePerLine = ui.onePerLine])
             \/ /\ callResult' = [outcome |-> "Failed to copy: "]
                /\ UNCHANGED clipboard
        ELSE /\ callResult' = [outcome |-> "returned"]
             /\ UNCHANGED clipboard

\* C17: after any renders, whatever their view modes, queries and options,
\* the table body holds the filtered rows of the latest render in order and
\* window.currentTableData holds the same rows with the view mode, showNames
\* and onePerLine of that render; so copyRowToClipboard(i) formats the row
\* displayed at index i and does nothing when no displayed row has index i.
C17_LatestRenderIsDisplayed == []TableIsLatestRender /\ [][CopyIsOfDisplayedRow]_vars

\* After a render of the ungrouped view (six rows) the search box was filled
\* with "T1" and two rows are left; the second of them has been copied, and a
\* call with index -1 or above the rows comes later in other states.
C17_Witness ==
    /\ currentTableData # NoData
    /\ ui.viewMode = "ungrouped" /\ ui.search = <<"\"", "T", "1", "\"">>
    /\ Len(displayRows) = 6 /\ Len(tableBody) = 2
    /\ callArgs = [fn |-> "copyRowToClipboard", index |-> 1]
    /\ callResult = [outcome |-> "Copied to clipboard"]
    /\ clipboard = TextByRule(currentTableData.rows[2], currentTableData)
    /\ currentTableData.rows[2] # displayRows[2]

----------------------------------------------------------------------------
(* The views show one relation.                                            *)

\* The pairs of a tablet and a pen that the rows of a view show together.
PairsOf(rows) ==
    UNION {Range(rows[i].tablets) \X Range(rows[i].pens) : i \in 1..Len(rows)}

\* The pairs of the document: a tablet id and a pen id that one compatrow
\* lists, each in its own element.
DocumentPairs(doc) ==
    UNION {TokensOf(doc.compatrows[i].tablet) \X TokensOf(doc.compatrows[i].pen) :
            i \in 1..Len(doc.compatrows)}

\* C18: whichever of the four views is displayed, the pairs of a tablet and
\* a pen taken from its rows are the same set, the pairs the rows of the
\* document list; changing the view mode adds no pair and loses none.
C18_ViewsShowSamePairs ==
    currentTableData # NoData =>
        /\ ui.viewMode \in ViewModes
        /\ PairsOf(displayRows) = DocumentPairs(xmlDoc)

\* The by-pen view of two compatrows that share a tablet and a pen: two rows
\* for the pens, one of them collecting the tablets of both compatrows, five
\* pairs in all.
C18_Witness ==
    /\ currentTableData # NoData /\ ui.viewMode = "by-pen"
    /\ Len(xmlDoc.compatrows) = 2 /\ Len(displayRows) = 2
    /\ Len(displayRows[1].tablets) = 3 /\ Len(displayRows[2].tablets) = 2
    /\ Cardinality(PairsOf(displayRows)) = 5

====
